---- MODULE Spec2Model ----
(***************************************************************************)
(* Query understanding and retrieval engine of the livestock / egg         *)
(* marketplace backend (backend/api/services/ai.py, backend/api/views.py,  *)
(* backend/api/models.py).                                                 *)
(*                                                                         *)
(* Text is modelled at the character level: a Python str is a sequence of  *)
(* one-character strings, so that substring tests (`kw in query_lower`),   *)
(* str.lower(), the regular expressions and the database's icontains are   *)
(* computed the way the code computes them.                                *)
(***************************************************************************)
EXTENDS Integers, Sequences, FiniteSets, TLC

(***************************************************************************)
(* Strings                                                                 *)
(***************************************************************************)

\* str.lower() on one character (ASCII letters).
UpperToLower ==
    [A |-> "a", B |-> "b", C |-> "c", D |-> "d", E |-> "e", F |-> "f", G |-> "g",
     H |-> "h", I |-> "i", J |-> "j", K |-> "k", L |-> "l", M |-> "m", N |-> "n",
     O |-> "o", P |-> "p", Q |-> "q", R |-> "r", S |-> "s", T |-> "t", U |-> "u",
     V |-> "v", W |-> "w", X |-> "x", Y |-> "y", Z |-> "z"]

LowerChar(c) == IF c \in DOMAIN UpperToLower THEN UpperToLower[c] ELSE c

\* query.lower()
lower(s) == [i \in 1..Len(s) |-> LowerChar(s[i])]

\* query.strip(): the only whitespace of the model's alphabet is the blank.
RECURSIVE lstrip(_)
lstrip(s) == IF s # <<>> /\ Head(s) = " " THEN lstrip(Tail(s)) ELSE s

RECURSIVE rstrip(_)
rstrip(s) ==
    IF s # <<>> /\ s[Len(s)] = " " THEN rstrip(SubSeq(s, 1, Len(s) - 1)) ELSE s

strip(s) == rstrip(lstrip(s))

\* Python's `needle in hay` on two str values.
In(needle, hay) ==
    \E i \in 1..(Len(hay) - Len(needle) + 1) :
        SubSeq(hay, i, i + Len(needle) - 1) = needle

\* any(kw in query_lower for kw in keywords)
AnyIn(keywords, q) == \E k \in 1..Len(keywords) : In(keywords[k], q)

\* Django's field__icontains=term lookup.
icontains(field, term) == In(lower(term), lower(field))

DigitChars == <<"0", "1", "2", "3", "4", "5", "6", "7", "8", "9">>

Digits == {DigitChars[i] : i \in 1..Len(DigitChars)}

DigitValue(c) == (CHOOSE i \in 1..Len(DigitChars) : DigitChars[i] = c) - 1

LowerLetters ==
    {"a", "b", "c", "d", "e", "f", "g", "h", "i", "j", "k", "l", "m",
     "n", "o", "p", "q", "r", "s", "t", "u", "v", "w", "x", "y", "z"}

\* The characters the regular expression class \w matches.
WordChars == LowerLetters \cup DOMAIN UpperToLower \cup Digits \cup {"_"}

\* The maximal runs of \w characters of s, left to right.
RECURSIVE ScanWords(_, _, _, _)
ScanWords(s, i, cur, acc) ==
    IF i > Len(s)
    THEN IF cur # <<>> THEN Append(acc, cur) ELSE acc
    ELSE IF s[i] \in WordChars
         THEN ScanWords(s, i + 1, Append(cur, s[i]), acc)
         ELSE ScanWords(s, i + 1, <<>>, IF cur # <<>> THEN Append(acc, cur) ELSE acc)

\* re.findall(r'\b\w+\b', s)
findall_words(s) == ScanWords(s, 1, <<>>, <<>>)

\* re.findall(r'\b\w{3,}\b', s)
findall_words3(s) == SelectSeq(findall_words(s), LAMBDA w : Len(w) >= 3)

\* words[:n]
Take(seq, n) == SubSeq(seq, 1, IF Len(seq) < n THEN Len(seq) ELSE n)

\* seq[-n:]
Last(seq, n) == SubSeq(seq, IF Len(seq) > n THEN Len(seq) - n + 1 ELSE 1, Len(seq))

\* The elements of a sequence.
Range(seq) == {seq[i] : i \in 1..Len(seq)}

\* int(price_str) of a string of decimal digits.
RECURSIVE int(_)
int(ds) ==
    IF ds = <<>> THEN 0
    ELSE 10 * int(SubSeq(ds, 1, Len(ds) - 1)) + DigitValue(ds[Len(ds)])

\* price_str.replace('k', '000').replace(',', '')
RECURSIVE replace_k_comma(_)
replace_k_comma(s) ==
    IF s = <<>> THEN <<>>
    ELSE (IF Head(s) = "k" THEN <<"0", "0", "0">>
          ELSE IF Head(s) = "," THEN <<>>
          ELSE <<Head(s)>>) \o replace_k_comma(Tail(s))

\* \s* from position i: the first position that holds no blank.
RECURSIVE SkipSpaces(_, _)
SkipSpaces(s, i) == IF i <= Len(s) /\ s[i] = " " THEN SkipSpaces(s, i + 1) ELSE i

\* \d* from position i: the first position that holds no digit.
RECURSIVE SkipDigits(_, _)
SkipDigits(s, i) == IF i <= Len(s) /\ s[i] \in Digits THEN SkipDigits(s, i + 1) ELSE i

\* The group (\d+[k,]?\d*) matched from position j, where s[j] is a digit.
NumberGroup(s, j) ==
    LET d1 == SkipDigits(s, j)
        d2 == IF d1 <= Len(s) /\ s[d1] \in {"k", ","} THEN SkipDigits(s, d1 + 1) ELSE d1
    IN  SubSeq(s, j, d2 - 1)

\* Where the group of  kw\s*(\d+[k,]?\d*)  starts if the pattern matches at i, else 0.
PriceGroupAt(kw, s, i) ==
    IF i + Len(kw) - 1 <= Len(s) /\ SubSeq(s, i, i + Len(kw) - 1) = kw
    THEN LET j == SkipSpaces(s, i + Len(kw))
         IN  IF j <= Len(s) /\ s[j] \in Digits THEN j ELSE 0
    ELSE 0

\* re.search(kw + r'\s*(\d+[k,]?\d*)', s): group 1 of the leftmost match, or
\* found = FALSE when there is no match.
price_search(kw, s) ==
    LET hits == {i \in 1..Len(s) : PriceGroupAt(kw, s, i) # 0}
    IN  IF hits = {} THEN [found |-> FALSE, group |-> <<>>]
        ELSE LET i == CHOOSE h \in hits : \A g \in hits : h <= g
             IN  [found |-> TRUE, group |-> NumberGroup(s, PriceGroupAt(kw, s, i))]

(***************************************************************************)
(* Term Extractor (AIService._extract_search_terms)                        *)
(***************************************************************************)

category_keywords ==
    << [category |-> <<"c","a","t","t","l","e">>,
         keywords |-> << <<"c","a","t","t","l","e">>, <<"c","o","w">>, <<"c","o","w","s">>, <<"b","u","l","l">>, <<"b","u","l","l","s">>, <<"c","a","l","f">>, <<"c","a","l","v","e","s">>, <<"b","e","e","f">>, <<"d","a","i","r","y">> >>],
       [category |-> <<"g","o","a","t","s">>,
         keywords |-> << <<"g","o","a","t">>, <<"g","o","a","t","s">>, <<"b","u","c","k">>, <<"d","o","e">>, <<"k","i","d">>, <<"b","o","e","r">>, <<"k","a","l","a","h","a","r","i">> >>],
       [category |-> <<"s","h","e","e","p">>,
         keywords |-> << <<"s","h","e","e","p">>, <<"r","a","m">>, <<"e","w","e">>, <<"l","a","m","b">>, <<"l","a","m","b","s">>, <<"w","o","o","l">> >>],
       [category |-> <<"p","o","u","l","t","r","y">>,
         keywords |-> << <<"c","h","i","c","k","e","n">>, <<"c","h","i","c","k","e","n","s">>, <<"p","o","u","l","t","r","y">>, <<"r","o","o","s","t","e","r">>, <<"h","e","n">>, <<"c","h","i","c","k","s">>, <<"b","r","o","i","l","e","r">>, <<"l","a","y","e","r">> >>],
       [category |-> <<"p","i","g","s">>,
         keywords |-> << <<"p","i","g">>, <<"p","i","g","s">>, <<"s","w","i","n","e">>, <<"h","o","g">>, <<"s","o","w">>, <<"b","o","a","r">>, <<"p","i","g","l","e","t">> >>] >>

breed_keywords ==
    << <<"b","o","e","r">>, <<"k","a","l","a","h","a","r","i">>, <<"r","e","d">>,
       <<"s","o","k","o","t","o">>, <<"w","e","s","t"," ","a","f","r","i","c","a","n"," ","d","w","a","r","f">>, <<"w","a","d">>,
       <<"b","r","a","h","m","a","n">>, <<"w","h","i","t","e"," ","f","u","l","a","n","i">>, <<"n","d","a","m","a">>,
       <<"m","u","t","u","r","u">>, <<"b","u","n","a","j","i">>, <<"d","o","r","p","e","r">>,
       <<"b","a","l","a","m","i">>, <<"y","a","n","k","a","s","a">>, <<"u","d","a">>,
       <<"n","o","i","l","e","r">>, <<"b","r","o","i","l","e","r">>, <<"l","a","y","e","r">>,
       <<"c","o","c","k","e","r","e","l">>, <<"l","a","r","g","e"," ","w","h","i","t","e">>, <<"l","a","n","d","r","a","c","e">>,
       <<"d","u","r","o","c">> >>

\* Variant: the male keywords without 'he'.
gender_map_without_he ==
    << [gender |-> "male",
         keywords |-> << <<"m","a","l","e">>, <<"b","u","c","k">>, <<"b","u","l","l">>, <<"r","a","m">>, <<"b","o","a","r">>, <<"r","o","o","s","t","e","r">>, <<"c","o","c","k">> >>],
       [gender |-> "female",
         keywords |-> << <<"f","e","m","a","l","e">>, <<"d","o","e">>, <<"c","o","w">>, <<"e","w","e">>, <<"s","o","w">>, <<"h","e","n">>, <<"s","h","e">> >>] >>

gender_map ==
    << [gender |-> "male",
         keywords |-> << <<"m","a","l","e">>, <<"b","u","c","k">>, <<"b","u","l","l">>, <<"r","a","m">>, <<"b","o","a","r">>, <<"r","o","o","s","t","e","r">>, <<"c","o","c","k">>, <<"h","e">> >>],
       [gender |-> "female",
         keywords |-> << <<"f","e","m","a","l","e">>, <<"d","o","e">>, <<"c","o","w">>, <<"e","w","e">>, <<"s","o","w">>, <<"h","e","n">>, <<"s","h","e">> >>] >>

quality_keywords ==
    << <<"h","e","a","l","t","h","y">>, <<"v","a","c","c","i","n","a","t","e","d">>, <<"p","r","e","m","i","u","m">>,
       <<"q","u","a","l","i","t","y">>, <<"i","n","v","e","s","t","m","e","n","t">>, <<"b","r","e","e","d","i","n","g">>,
       <<"p","u","r","e","b","r","e","d">>, <<"p","u","r","e">>, <<"r","e","g","i","s","t","e","r","e","d">>,
       <<"c","e","r","t","i","f","i","e","d">>, <<"o","r","g","a","n","i","c">> >>

nigerian_locations ==
    << <<"l","a","g","o","s">>, <<"a","b","u","j","a">>, <<"k","a","n","o">>,
       <<"i","b","a","d","a","n">>, <<"k","a","d","u","n","a">>, <<"p","o","r","t"," ","h","a","r","c","o","u","r","t">>,
       <<"b","e","n","i","n">>, <<"m","a","i","d","u","g","u","r","i">>, <<"z","a","r","i","a">>,
       <<"a","b","a">>, <<"j","o","s">>, <<"i","l","o","r","i","n">>,
       <<"o","y","o">>, <<"e","n","u","g","u">>, <<"a","b","e","o","k","u","t","a">>,
       <<"s","o","k","o","t","o">>, <<"o","n","i","t","s","h","a">>, <<"w","a","r","r","i">>,
       <<"c","a","l","a","b","a","r">>, <<"u","y","o">>, <<"a","s","a","b","a">>,
       <<"o","w","e","r","r","i">> >>

stopwords ==
    { <<"a">>, <<"a","n">>, <<"t","h","e">>, <<"i","s">>,
      <<"a","r","e">>, <<"w","a","s">>, <<"w","e","r","e">>, <<"b","e">>,
      <<"b","e","e","n">>, <<"b","e","i","n","g">>, <<"h","a","v","e">>, <<"h","a","s">>,
      <<"h","a","d">>, <<"d","o">>, <<"d","o","e","s">>, <<"d","i","d">>,
      <<"w","i","l","l">>, <<"w","o","u","l","d">>, <<"c","o","u","l","d">>, <<"s","h","o","u","l","d">>,
      <<"m","a","y">>, <<"m","i","g","h","t">>, <<"m","u","s","t">>, <<"s","h","a","l","l">>,
      <<"c","a","n">>, <<"n","e","e","d">>, <<"d","a","r","e">>, <<"o","u","g","h","t">>,
      <<"u","s","e","d">>, <<"t","o">>, <<"o","f">>, <<"i","n">>,
      <<"f","o","r">>, <<"o","n">>, <<"w","i","t","h">>, <<"a","t">>,
      <<"b","y">>, <<"f","r","o","m">>, <<"a","s">>, <<"i","n","t","o">>,
      <<"t","h","r","o","u","g","h">>, <<"d","u","r","i","n","g">>, <<"b","e","f","o","r","e">>, <<"a","f","t","e","r">>,
      <<"a","b","o","v","e">>, <<"b","e","l","o","w">>, <<"b","e","t","w","e","e","n">>, <<"u","n","d","e","r">>,
      <<"a","g","a","i","n">>, <<"f","u","r","t","h","e","r">>, <<"t","h","e","n">>, <<"o","n","c","e">>,
      <<"h","e","r","e">>, <<"t","h","e","r","e">>, <<"w","h","e","n">>, <<"w","h","e","r","e">>,
      <<"w","h","y">>, <<"h","o","w">>, <<"a","l","l">>, <<"e","a","c","h">>,
      <<"f","e","w">>, <<"m","o","r","e">>, <<"m","o","s","t">>, <<"o","t","h","e","r">>,
      <<"s","o","m","e">>, <<"s","u","c","h">>, <<"n","o">>, <<"n","o","r">>,
      <<"n","o","t">>, <<"o","n","l","y">>, <<"o","w","n">>, <<"s","a","m","e">>,
      <<"s","o">>, <<"t","h","a","n">>, <<"t","o","o">>, <<"v","e","r","y">>,
      <<"j","u","s","t">>, <<"a","n","d">>, <<"b","u","t">>, <<"i","f">>,
      <<"o","r">>, <<"b","e","c","a","u","s","e">>, <<"u","n","t","i","l">>, <<"w","h","i","l","e">>,
      <<"a","l","t","h","o","u","g","h">>, <<"f","i","n","d">>, <<"m","e">>, <<"s","h","o","w">>,
      <<"g","e","t">>, <<"l","o","o","k","i","n","g">>, <<"w","a","n","t">>, <<"s","e","a","r","c","h">>,
      <<"g","i","v","e">>, <<"t","e","l","l">>, <<"a","b","o","u","t">>, <<"w","h","a","t">>,
      <<"w","h","i","c","h">>, <<"a","n","y">>, <<"g","o","o","d">>, <<"b","e","s","t">>,
      <<"i">>, <<"m","y">>, <<"y","o","u","r">>, <<"l","i","k","e">>,
      <<"p","l","e","a","s","e">> }

\* for ... in table: if <test>: list.append(...)   (matches kept in table order)
Matching(table, q) == SelectSeq(table, LAMBDA kw : In(kw, q))

\* categories: every category one of whose keywords occurs in the query.
extract_categories(q) ==
    LET hit == SelectSeq(category_keywords, LAMBDA e : AnyIn(e.keywords, q))
    IN  [i \in 1..Len(hit) |-> hit[i].category]

\* Variant: a female keyword is looked for before the male keywords.
extract_gender_female_first(q) ==
    LET hit == SelectSeq(gender_map, LAMBDA e : AnyIn(e.keywords, q))
    IN  IF hit = <<>> THEN "None"
        ELSE IF hit[Len(hit)].gender = "female" THEN "F" ELSE "M"

\* gender: the first entry of gender_map with a keyword in the query decides.
extract_gender(q) ==
    LET hit == SelectSeq(gender_map, LAMBDA e : AnyIn(e.keywords, q))
    IN  IF hit = <<>> THEN "None"
        ELSE IF hit[1].gender = "male" THEN "M" ELSE "F"

\* Variant: a bound found by the 'under' pattern is kept.
extract_price_range_keeps_under(q) ==
    LET under == price_search(<<"u", "n", "d", "e", "r">>, q)
        above == price_search(<<"a", "b", "o", "v", "e">>, q)
    IN  IF under.found
        THEN [kind |-> "max", amount |-> int(replace_k_comma(under.group))]
        ELSE IF above.found
             THEN [kind |-> "min", amount |-> int(replace_k_comma(above.group))]
             ELSE [kind |-> "none", amount |-> 0]

\* price_range: the 'under' pattern first, then the 'above' pattern overwrites.
extract_price_range(q) ==
    LET under == price_search(<<"u", "n", "d", "e", "r">>, q)
        above == price_search(<<"a", "b", "o", "v", "e">>, q)
    IN  IF above.found
        THEN [kind |-> "min", amount |-> int(replace_k_comma(above.group))]
        ELSE IF under.found
             THEN [kind |-> "max", amount |-> int(replace_k_comma(under.group))]
             ELSE [kind |-> "none", amount |-> 0]

\* word in cat_keywords for some category.
InCategoryKeywords(word) ==
    \E k \in 1..Len(category_keywords) : word \in Range(category_keywords[k].keywords)

\* general_terms: the remaining significant words.
extract_general_terms(q, breeds, quality_terms) ==
    SelectSeq(findall_words(q),
              LAMBDA word :
                  /\ word \notin stopwords
                  /\ Len(word) > 2
                  /\ word \notin Range(breeds)
                  /\ word \notin Range(quality_terms)
                  /\ ~InCategoryKeywords(word))

_extract_search_terms(query) ==
    LET query_lower == lower(query)
        breeds == Matching(breed_keywords, query_lower)
        quality_terms == Matching(quality_keywords, query_lower)
    IN  [categories |-> extract_categories(query_lower),
         breeds |-> breeds,
         gender |-> extract_gender(query_lower),
         quality_terms |-> quality_terms,
         price_range |-> extract_price_range(query_lower),
         location_terms |-> Matching(nigerian_locations, query_lower),
         general_terms |-> extract_general_terms(query_lower, breeds, quality_terms)]

(***************************************************************************)
(* Catalog store                                                           *)
(***************************************************************************)

\* The Livestock rows that may exist (api.models.Livestock); a row of the store
\* is [id, is_sold], its other columns are those of LivestockTable[id].
LivestockTable ==
    << [name |-> <<"B","o","e","r"," ","B","u","c","k">>,
        category |-> <<"G","o","a","t","s">>,
        breed |-> <<"B","o","e","r">>,
        gender |-> "M",
        price |-> 45000,
        location |-> <<"L","a","g","o","s">>,
        description |-> <<"s","t","r","o","n","g"," ","g","o","a","t">>,
        health_status |-> <<"v","a","c","c","i","n","a","t","e","d">>,
        tags |-> {<<"p","r","e","m","i","u","m">>},
        created_at |-> 1],
       [name |-> <<"D","a","i","r","y"," ","C","o","w">>,
        category |-> <<"C","a","t","t","l","e">>,
        breed |-> <<"W","h","i","t","e"," ","F","u","l","a","n","i">>,
        gender |-> "F",
        price |-> 350000,
        location |-> <<"K","a","n","o">>,
        description |-> <<"c","a","l","m"," ","a","n","d"," ","g","e","n","t","l","e">>,
        health_status |-> <<"h","e","a","l","t","h","y">>,
        tags |-> {},
        created_at |-> 2],
       [name |-> <<"R","a","m">>,
        category |-> <<"S","h","e","e","p">>,
        breed |-> <<"B","a","l","a","m","i">>,
        gender |-> "M",
        price |-> 90000,
        location |-> <<"J","o","s">>,
        description |-> <<"b","i","g">>,
        health_status |-> <<"g","o","o","d">>,
        tags |-> {<<"g","r","e","e","n">>},
        created_at |-> 3] >>

LivestockIds == 1..Len(LivestockTable)

LivestockRows == [id : LivestockIds, is_sold : BOOLEAN]

\* Meta.ordering = ['-created_at']: ids of a set of rows, most recent first.
RECURSIVE order_by_created_desc(_, _)
order_by_created_desc(ids, created) ==
    IF ids = {} THEN <<>>
    ELSE LET newest == CHOOSE i \in ids : \A j \in ids : created[j] <= created[i]
         IN  <<newest>> \o order_by_created_desc(ids \ {newest}, created)

LivestockCreated == [i \in LivestockIds |-> LivestockTable[i].created_at]

\* Variant: the is_sold filter is left out.
Unsold_unfiltered(rows) == {r.id : r \in rows}

\* Livestock.objects.filter(is_sold=False)
Unsold(rows) == {r.id : r \in {x \in rows : ~x.is_sold}}

(***************************************************************************)
(* Livestock Retrieval Engine (AIService.semantic_search)                  *)
(***************************************************************************)

\* Q(category__name__icontains=cat) OR-ed over the detected categories.
category_q(terms, s) == \E k \in 1..Len(terms.categories) : icontains(s.category, terms.categories[k])

\* Q(breed__icontains=breed) OR-ed over the detected breeds.
breed_q(terms, s) == \E k \in 1..Len(terms.breeds) : icontains(s.breed, terms.breeds[k])

\* price__lte / price__gte
price_q(terms, s) ==
    IF terms.price_range.kind = "max" THEN s.price <= terms.price_range.amount
    ELSE s.price >= terms.price_range.amount

\* Q(location__icontains=loc) OR-ed over the detected locations.
loc_q(terms, s) == \E k \in 1..Len(terms.location_terms) : icontains(s.location, terms.location_terms[k])

\* The text search over quality_terms + general_terms.
text_q(search_terms, s) ==
    \E k \in 1..Len(search_terms) :
        LET term == search_terms[k]
        IN  \/ icontains(s.name, term)
            \/ icontains(s.description, term)
            \/ icontains(s.breed, term)
            \/ icontains(s.health_status, term)
            \/ \E t \in s.tags : icontains(t, term)

\* Variant: the strict queryset does not filter on the gender.
tier1_filter_no_gender(terms, s) ==
    /\ terms.categories # <<>> => category_q(terms, s)
    /\ terms.breeds # <<>> => breed_q(terms, s)
    /\ terms.price_range.kind # "none" => price_q(terms, s)
    /\ terms.location_terms # <<>> => loc_q(terms, s)
    /\ (terms.quality_terms \o terms.general_terms) # <<>>
           => text_q(terms.quality_terms \o terms.general_terms, s)

\* Variant: with no populated criterion the strict queryset selects nothing.
tier1_filter_skips_empty(terms, s) ==
    /\ \/ terms.categories # <<>>
       \/ terms.breeds # <<>>
       \/ terms.gender # "None"
       \/ terms.price_range.kind # "none"
       \/ terms.location_terms # <<>>
       \/ (terms.quality_terms \o terms.general_terms) # <<>>
    /\ tier1_filter_no_gender(terms, s)
    /\ terms.gender # "None" => s.gender = terms.gender

\* The strict queryset: every populated criteria field filters.
tier1_filter(terms, s) ==
    /\ terms.categories # <<>> => category_q(terms, s)
    /\ terms.breeds # <<>> => breed_q(terms, s)
    /\ terms.gender # "None" => s.gender = terms.gender
    /\ terms.price_range.kind # "none" => price_q(terms, s)
    /\ terms.location_terms # <<>> => loc_q(terms, s)
    /\ (terms.quality_terms \o terms.general_terms) # <<>>
           => text_q(terms.quality_terms \o terms.general_terms, s)

\* Variant: the broad queryset does not look at the location.
broad_q_no_location(words, s) ==
    \E k \in 1..Len(words) :
        \/ icontains(s.name, words[k])
        \/ icontains(s.breed, words[k])
        \/ icontains(s.description, words[k])
        \/ icontains(s.category, words[k])

\* The broad queryset: any of the words in name, breed, description, category, location.
broad_q(words, s) ==
    \E k \in 1..Len(words) :
        \/ icontains(s.name, words[k])
        \/ icontains(s.breed, words[k])
        \/ icontains(s.description, words[k])
        \/ icontains(s.category, words[k])
        \/ icontains(s.location, words[k])

BroadWords == 5

\* queryset[:limit] of the rows with the given ids, in the default ordering.
livestock_list(ids, limit) == Take(order_by_created_desc(ids, LivestockCreated), limit)

\* Variant: the broad query is run whatever the strict one returned.
runs_broad_always(results, query, words) == strip(query) # <<>> /\ words # <<>>

\* `if not results and query.strip():` ... `if words:` -- the broad query is run.
runs_broad(results, query, words) == results = <<>> /\ strip(query) # <<>> /\ words # <<>>

\* Variant: no fallback to the recent rows.
runs_recent_never(results) == FALSE

\* `if not results:` -- the recent rows are fetched.
runs_recent(results) == results = <<>>

\* semantic_search(query, limit) over the rows of the store.  The value holds the
\* returned list and, per tier whose queryset was evaluated, the rows it gave.
semantic_search(query, limit, rows) ==
    LET terms == _extract_search_terms(query)
        unsold == Unsold(rows)
        strict == livestock_list({i \in unsold : tier1_filter(terms, LivestockTable[i])}, limit)
        words == findall_words3(lower(query))
        runs2 == runs_broad(strict, query, words)
        broad == livestock_list(
                     {i \in unsold : broad_q(Take(words, BroadWords), LivestockTable[i])}, limit)
        after2 == IF runs2 THEN broad ELSE strict
        runs3 == runs_recent(after2)
        recent == livestock_list(unsold, limit)
    IN  [results |-> IF runs3 THEN recent ELSE after2,
         trace |-> <<[tier |-> 1, rows |-> strict]>>
                   \o (IF runs2 THEN <<[tier |-> 2, rows |-> broad]>> ELSE <<>>)
                   \o (IF runs3 THEN <<[tier |-> 3, rows |-> recent]>> ELSE <<>>)]

(***************************************************************************)
(* Egg Term Extractor (AIService._extract_egg_search_terms)                *)
(***************************************************************************)

category_map ==
    << [slug |-> <<"c","h","i","c","k","e","n">>,
         keywords |-> << <<"c","h","i","c","k","e","n">>, <<"c","h","i","c","k","e","n","s">>, <<"b","r","o","i","l","e","r">>, <<"l","a","y","e","r">>, <<"h","e","n">>, <<"r","o","o","s","t","e","r">>, <<"n","o","i","l","e","r">> >>],
       [slug |-> <<"t","u","r","k","e","y">>,
         keywords |-> << <<"t","u","r","k","e","y">>, <<"t","u","r","k","e","y","s">> >>],
       [slug |-> <<"q","u","a","i","l">>,
         keywords |-> << <<"q","u","a","i","l">>, <<"q","u","a","i","l","s">> >>],
       [slug |-> <<"d","u","c","k">>,
         keywords |-> << <<"d","u","c","k">>, <<"d","u","c","k","s">> >>],
       [slug |-> <<"g","u","i","n","e","a","-","f","o","w","l">>,
         keywords |-> << <<"g","u","i","n","e","a">>, <<"g","u","i","n","e","a"," ","f","o","w","l">>, <<"g","u","i","n","e","a","-","f","o","w","l">> >>],
       [slug |-> <<"g","o","o","s","e">>,
         keywords |-> << <<"g","o","o","s","e">>, <<"g","e","e","s","e">> >>] >>

size_keywords ==
    << [size |-> "small",
         keywords |-> << <<"s","m","a","l","l">> >>],
       [size |-> "medium",
         keywords |-> << <<"m","e","d","i","u","m">> >>],
       [size |-> "large",
         keywords |-> << <<"l","a","r","g","e">>, <<"b","i","g">> >>],
       [size |-> "extra_large",
         keywords |-> << <<"e","x","t","r","a"," ","l","a","r","g","e">>, <<"e","x","t","r","a","-","l","a","r","g","e">>, <<"x","l">> >>],
       [size |-> "jumbo",
         keywords |-> << <<"j","u","m","b","o">> >>] >>

egg_stopwords ==
    { <<"e","g","g">>, <<"e","g","g","s">>, <<"t","h","e">>, <<"f","o","r">>,
      <<"a","n","d">>, <<"w","a","n","t">>, <<"n","e","e","d">>, <<"f","i","n","d">>,
      <<"s","h","o","w">>, <<"g","e","t">>, <<"l","o","o","k","i","n","g">> }

\* category: the first slug of category_map one of whose keywords occurs.
extract_egg_category(q) ==
    LET hit == SelectSeq(category_map, LAMBDA e : AnyIn(e.keywords, q))
    IN  IF hit = <<>> THEN <<>> ELSE hit[1].slug

\* egg_type: the if / elif chain.
extract_egg_type(q) ==
    IF In(<<"f","e","r","t","i","l","i","z","e","d">>, q) \/ In(<<"h","a","t","c","h","i","n","g">>, q) \/ In(<<"i","n","c","u","b","a","t">>, q) THEN "fertilized"
    ELSE IF In(<<"o","r","g","a","n","i","c">>, q) THEN "organic"
    ELSE IF In(<<"f","r","e","e"," ","r","a","n","g","e">>, q) \/ In(<<"f","r","e","e","-","r","a","n","g","e">>, q) THEN "free_range"
    ELSE IF In(<<"t","a","b","l","e">>, q) \/ In(<<"e","a","t","i","n","g">>, q) \/ In(<<"c","o","n","s","u","m","p","t","i","o","n">>, q) THEN "table"
    ELSE "None"

\* size: the first entry of size_keywords one of whose keywords occurs.
extract_size(q) ==
    LET hit == SelectSeq(size_keywords, LAMBDA e : AnyIn(e.keywords, q))
    IN  IF hit = <<>> THEN "None" ELSE hit[1].size

\* packaging: keyword plus quantity cue.
extract_packaging(q) ==
    IF In(<<"c","r","a","t","e">>, q)
    THEN IF In(<<"3","0">>, q) \/ In(<<"f","u","l","l">>, q) THEN "crate_30"
         ELSE IF In(<<"1","5">>, q) \/ In(<<"h","a","l","f">>, q) THEN "half_crate_15"
         ELSE "None"
    ELSE IF In(<<"t","r","a","y">>, q)
         THEN IF In(<<"3","0">>, q) THEN "tray_30"
              ELSE IF In(<<"1","2">>, q) \/ In(<<"d","o","z","e","n">>, q) THEN "tray_12"
              ELSE "None"
         ELSE "None"

\* Where the group of  under\s*N?\s*(\d+[k,]?\d*)  starts if the pattern matches
\* at i (N the naira sign), else 0.
EggPriceGroupAt(s, i) ==
    LET kw == <<"u","n","d","e","r">>
    IN  IF i + Len(kw) - 1 <= Len(s) /\ SubSeq(s, i, i + Len(kw) - 1) = kw
        THEN LET j1 == SkipSpaces(s, i + Len(kw))
                 j2 == IF j1 <= Len(s) /\ s[j1] = "₦" THEN j1 + 1 ELSE j1
                 j == SkipSpaces(s, j2)
             IN  IF j <= Len(s) /\ s[j] \in Digits THEN j ELSE 0
        ELSE 0

\* price_max: None (0 here, which the search treats alike) or the amount.
extract_price_max(s) ==
    LET hits == {i \in 1..Len(s) : EggPriceGroupAt(s, i) # 0}
    IN  IF hits = {} THEN 0
        ELSE LET i == CHOOSE h \in hits : \A g \in hits : h <= g
             IN  int(replace_k_comma(NumberGroup(s, EggPriceGroupAt(s, i))))

_extract_egg_search_terms(query) ==
    LET query_lower == lower(query)
    IN  [category |-> extract_egg_category(query_lower),
         egg_type |-> extract_egg_type(query_lower),
         size |-> extract_size(query_lower),
         packaging |-> extract_packaging(query_lower),
         freshness |-> IF In(<<"f","r","e","s","h">>, query_lower) \/ In(<<"n","e","w">>, query_lower)
                       THEN "fresh" ELSE "None",
         price_max |-> extract_price_max(query_lower),
         location_terms |-> Matching(nigerian_locations, query_lower),
         general_terms |-> <<>>]

(***************************************************************************)
(* Egg Retrieval Engine (AIService.semantic_search_eggs)                   *)
(***************************************************************************)

\* The Egg rows that may exist (api.models.Egg); a row of the store is
\* [id, is_available], its other columns are those of EggTable[id].  expiry_date
\* is <<>> for NULL and <<day>> for a date, counted in days.
EggTable ==
    << [name |-> <<"F","a","r","m"," ","E","g","g","s">>,
        category_name |-> <<"C","h","i","c","k","e","n">>,
        category_slug |-> <<"c","h","i","c","k","e","n">>,
        breed |-> <<"L","a","y","e","r">>,
        egg_type |-> "table",
        size |-> "large",
        packaging |-> "crate_30",
        price |-> 3500,
        expiry_date |-> <<10>>,
        location |-> <<"L","a","g","o","s">>,
        description |-> <<"f","r","e","s","h"," ","d","a","i","l","y">>,
        tags |-> << <<"f","a","r","m">> >>,
        is_featured |-> TRUE,
        created_at |-> 1],
       [name |-> <<"Q","u","a","i","l"," ","E","g","g","s">>,
        category_name |-> <<"Q","u","a","i","l">>,
        category_slug |-> <<"q","u","a","i","l">>,
        breed |-> <<>>,
        egg_type |-> "fertilized",
        size |-> "small",
        packaging |-> "tray_12",
        price |-> 2000,
        expiry_date |-> <<>>,
        location |-> <<"A","b","u","j","a">>,
        description |-> <<"f","o","r"," ","h","a","t","c","h","i","n","g">>,
        tags |-> <<>>,
        is_featured |-> FALSE,
        created_at |-> 2] >>

EggIds == 1..Len(EggTable)

EggRows == [id : EggIds, is_available : BOOLEAN]

EggCreated == [i \in EggIds |-> EggTable[i].created_at]

\* Egg.objects.filter(is_available=True)
Available(rows) == {r.id : r \in {x \in rows : x.is_available}}

\* Variant: the fallback is ordered by recency alone.
order_by_created_only(ids) == order_by_created_desc(ids, EggCreated)

\* order_by('-is_featured', '-created_at')
order_by_featured_created(ids) ==
    order_by_created_desc({i \in ids : EggTable[i].is_featured}, EggCreated)
        \o order_by_created_desc({i \in ids : ~EggTable[i].is_featured}, EggCreated)

FreshDays == 7

\* expiry_date__gt = today + timedelta(days=7); a NULL date never compares greater.
fresh_filter(e, now) == e.expiry_date # <<>> /\ e.expiry_date[1] > now + FreshDays

\* Q(location__icontains=loc) OR-ed over the detected locations.
egg_loc_q(terms, e) ==
    \E k \in 1..Len(terms.location_terms) : icontains(e.location, terms.location_terms[k])

\* search_words = [w for w in words[:5] if w not in stopwords]
egg_search_words(query) ==
    SelectSeq(Take(findall_words3(lower(query)), BroadWords), LAMBDA w : w \notin egg_stopwords)

\* The text search over the search words.
egg_text_q(search_words, e) ==
    \E k \in 1..Len(search_words) :
        \/ icontains(e.name, search_words[k])
        \/ icontains(e.breed, search_words[k])
        \/ icontains(e.description, search_words[k])
        \/ icontains(e.category_name, search_words[k])

\* The egg queryset: every populated criteria field and the text search filter.
egg_filter(terms, search_words, e, now) ==
    /\ terms.category # <<>> => e.category_slug = terms.category
    /\ terms.egg_type # "None" => e.egg_type = terms.egg_type
    /\ terms.size # "None" => e.size = terms.size
    /\ terms.packaging # "None" => e.packaging = terms.packaging
    /\ terms.freshness = "fresh" => fresh_filter(e, now)
    /\ terms.price_max # 0 => e.price <= terms.price_max
    /\ terms.location_terms # <<>> => egg_loc_q(terms, e)
    /\ search_words # <<>> => egg_text_q(search_words, e)

\* queryset[:limit] of the rows with the given ids, in the default ordering.
egg_list(ids, limit) == Take(order_by_created_desc(ids, EggCreated), limit)

FilterLimit == 50

\* EggViewSet.freshness_filter: the available eggs selected for the status
\* parameter ("None": no parameter, read as 'fresh'), eggs[:50] in the default
\* ordering.  A NULL expiry date satisfies no comparison.
freshness_filter(status, rows, now) ==
    LET freshness_status_param == IF status = "None" THEN "fresh" ELSE status
        dated(e) == e.expiry_date # <<>>
        selected(e) ==
            IF freshness_status_param = "fresh"
            THEN dated(e) /\ e.expiry_date[1] > now + 7
            ELSE IF freshness_status_param = "use_soon"
            THEN dated(e) /\ e.expiry_date[1] > now + 3 /\ e.expiry_date[1] <= now + 7
            ELSE IF freshness_status_param = "expiring_soon"
            THEN dated(e) /\ e.expiry_date[1] > now /\ e.expiry_date[1] <= now + 3
            ELSE IF freshness_status_param = "expired"
            THEN dated(e) /\ e.expiry_date[1] < now
            ELSE TRUE
    IN  egg_list({i \in Available(rows) : selected(EggTable[i])}, FilterLimit)

\* semantic_search_eggs(query, limit) over the rows of the store, on day `now`.
semantic_search_eggs(query, limit, rows, now) ==
    LET terms == _extract_egg_search_terms(query)
        search_words == egg_search_words(query)
        available == Available(rows)
        strict == egg_list({i \in available : egg_filter(terms, search_words, EggTable[i], now)},
                           limit)
        runs3 == runs_recent(strict)
        featured == Take(order_by_featured_created(available), limit)
    IN  [results |-> IF runs3 THEN featured ELSE strict,
         trace |-> <<[tier |-> 1, rows |-> strict]>>
                   \o (IF runs3 THEN <<[tier |-> 3, rows |-> featured]>> ELSE <<>>)]

(***************************************************************************)
(* Intent Classifier (AIService._detect_query_intent) and smart_search     *)
(***************************************************************************)

egg_keywords ==
    << <<"e","g","g">>, <<"e","g","g","s">>, <<"c","r","a","t","e">>,
       <<"t","r","a","y">>, <<"d","o","z","e","n">>, <<"h","a","t","c","h","i","n","g">>,
       <<"f","e","r","t","i","l","i","z","e","d">>, <<"f","r","e","s","h"," ","e","g","g","s">>, <<"o","r","g","a","n","i","c"," ","e","g","g","s">>,
       <<"f","r","e","e"," ","r","a","n","g","e">>, <<"t","a","b","l","e"," ","e","g","g","s">>, <<"l","a","y","i","n","g">>,
       <<"y","o","l","k">>, <<"s","h","e","l","l">>, <<"i","n","c","u","b","a","t","i","o","n">> >>

livestock_only_keywords ==
    << <<"c","a","t","t","l","e">>, <<"c","o","w">>, <<"c","o","w","s">>,
       <<"b","u","l","l">>, <<"b","u","l","l","s">>, <<"c","a","l","f">>,
       <<"c","a","l","v","e","s">>, <<"b","e","e","f">>, <<"g","o","a","t">>,
       <<"g","o","a","t","s">>, <<"b","u","c","k">>, <<"d","o","e">>,
       <<"k","i","d">>, <<"b","o","e","r">>, <<"k","a","l","a","h","a","r","i">>,
       <<"s","h","e","e","p">>, <<"r","a","m">>, <<"e","w","e">>,
       <<"l","a","m","b">>, <<"l","a","m","b","s">>, <<"w","o","o","l">>,
       <<"p","i","g">>, <<"p","i","g","s">>, <<"s","w","i","n","e">>,
       <<"h","o","g">>, <<"s","o","w">>, <<"p","i","g","l","e","t">>,
       <<"p","o","r","k">>, <<"l","i","v","e","s","t","o","c","k">>, <<"a","n","i","m","a","l">>,
       <<"a","n","i","m","a","l","s">>, <<"b","r","e","e","d","i","n","g"," ","s","t","o","c","k">>, <<"h","e","r","d">> >>

poultry_keywords ==
    << <<"c","h","i","c","k","e","n">>, <<"c","h","i","c","k","e","n","s">>, <<"p","o","u","l","t","r","y">>,
       <<"h","e","n">>, <<"r","o","o","s","t","e","r">>, <<"c","o","c","k","e","r","e","l">>,
       <<"t","u","r","k","e","y">>, <<"t","u","r","k","e","y","s">>, <<"d","u","c","k">>,
       <<"d","u","c","k","s">>, <<"q","u","a","i","l">>, <<"g","u","i","n","e","a"," ","f","o","w","l">>,
       <<"b","r","o","i","l","e","r">>, <<"l","a","y","e","r">>, <<"n","o","i","l","e","r">> >>

\* Variant: a query without any keyword selects no catalog.
intent_of_default_none(has_egg_keywords, has_livestock_keywords, has_poultry_keywords) ==
    IF has_egg_keywords THEN [livestock |-> FALSE, eggs |-> TRUE]
    ELSE IF has_livestock_keywords THEN [livestock |-> TRUE, eggs |-> FALSE]
    ELSE IF has_poultry_keywords THEN [livestock |-> TRUE, eggs |-> TRUE]
    ELSE [livestock |-> FALSE, eggs |-> FALSE]

\* Variant: the livestock keywords are tested before the egg keywords.
intent_of_livestock_first(has_egg_keywords, has_livestock_keywords, has_poultry_keywords) ==
    IF has_livestock_keywords THEN [livestock |-> TRUE, eggs |-> FALSE]
    ELSE IF has_egg_keywords THEN [livestock |-> FALSE, eggs |-> TRUE]
    ELSE [livestock |-> TRUE, eggs |-> TRUE]

\* The if / elif chain over the three flags.
intent_of(has_egg_keywords, has_livestock_keywords, has_poultry_keywords) ==
    IF has_egg_keywords THEN [livestock |-> FALSE, eggs |-> TRUE]
    ELSE IF has_livestock_keywords THEN [livestock |-> TRUE, eggs |-> FALSE]
    ELSE IF has_poultry_keywords THEN [livestock |-> TRUE, eggs |-> TRUE]
    ELSE [livestock |-> TRUE, eggs |-> TRUE]

_detect_query_intent(query) ==
    LET query_lower == lower(query)
    IN  intent_of(AnyIn(egg_keywords, query_lower),
                  AnyIn(livestock_only_keywords, query_lower),
                  AnyIn(poultry_keywords, query_lower))

\* The value of an engine that was not called.
NotCalled == [results |-> <<>>, trace |-> <<>>]

\* smart_search(query, limit): the engines the intent selects.
smart_search(query, limit, lrows, erows, now) ==
    LET intent == _detect_query_intent(query)
    IN  [intent |-> intent,
         livestock |-> IF intent.livestock THEN semantic_search(query, limit, lrows)
                       ELSE NotCalled,
         eggs |-> IF intent.eggs THEN semantic_search_eggs(query, limit, erows, now)
                  ELSE NotCalled]

(***************************************************************************)
(* Context Assembler and Response Generator                                *)
(* (AIService._build_system_prompt, generate_chat_response,                *)
(*  generate_chat_response_stream)                                         *)
(***************************************************************************)

\* A candidate is a model instance: a record of its columns, with `tags` the
\* sequence that tags.all() returns.  An Egg instance has an expiry_date; a history
\* turn is the dict [role |-> ..., content |-> ...] and has none of the attributes
\* of an Egg.
has_egg_attributes(x) == "expiry_date" \in DOMAIN x

PromptItems == 5

PromptTags == 3

HealthChars == 100

DescriptionChars == 150

\* Variant: the ellipsis is added from n characters on.
truncate_ellipsis_early(text, n) ==
    Take(text, n) \o (IF Len(text) >= n THEN <<".", ".", ".">> ELSE <<>>)

\* f"{text[:n]}{'...' if len(text) > n else ''}"
truncate(text, n) ==
    Take(text, n) \o (IF Len(text) > n THEN <<".", ".", ".">> ELSE <<>>)

\* The entry of one livestock candidate: the first tags (none is shown as N/A), the
\* health text and the description cut.
format_stock(stock) ==
    [name |-> stock.name,
     health |-> truncate(stock.health_status, HealthChars),
     tags |-> Take(stock.tags, PromptTags),
     description |-> truncate(stock.description, DescriptionChars)]

\* The entry of one egg candidate.
format_egg(egg) ==
    [name |-> egg.name,
     tags |-> Take(egg.tags, PromptTags),
     description |-> truncate(egg.description, DescriptionChars)]

\* _build_system_prompt(livestock_list, eggs_list), the arguments named after the
\* caller's: the entries of the first candidates of each list, or the
\* AttributeError of reading egg.freshness_status off a value that is no Egg.
_build_system_prompt(context_livestock, context_eggs) ==
    IF \E k \in 1..Len(Take(context_eggs, PromptItems)) : ~has_egg_attributes(context_eggs[k])
    THEN [raised |-> TRUE, prompt |-> [livestock |-> <<>>, eggs |-> <<>>]]
    ELSE [raised |-> FALSE,
          prompt |-> [livestock |-> [k \in 1..Len(Take(context_livestock, PromptItems)) |->
                                        format_stock(context_livestock[k])],
                      eggs |-> [k \in 1..Len(Take(context_eggs, PromptItems)) |->
                                   format_egg(context_eggs[k])]]]

HistoryWindow == 20

\* Variant: the first turns of the history are kept, not the last.
history_window_first(conversation_history) == Take(conversation_history, HistoryWindow)

\* conversation_history[-20:]
history_window(conversation_history) == Last(conversation_history, HistoryWindow)

\* messages = [system] + the kept turns, copied as {role, content} + [user]
build_messages(system_prompt, conversation_history, message) ==
    LET kept == history_window(conversation_history)
    IN  <<[role |-> "system", content |-> system_prompt]>>
        \o [i \in 1..Len(kept) |-> [role |-> kept[i].role, content |-> kept[i].content]]
        \o <<[role |-> "user", content |-> message]>>

Apology ==
    <<"I"," ","a","p","o","l","o","g","i","z","e",","," ","b","u","t"," ","I","'","m"," ","h","a","v","i","n","g"," ","t","r","o","u","b","l","e"," ","c","o","n","n","e","c","t","i","n","g"," ","r","i","g","h","t"," ","n","o","w","."," ","P","l","e","a","s","e"," ","t","r","y"," ","a","g","a","i","n"," ","i","n"," ","a"," ","m","o","m","e","n","t",".">>

\* sum of the chunks, left to right
RECURSIVE Concat(_)
Concat(chunks) == IF chunks = <<>> THEN <<>> ELSE Head(chunks) \o Concat(Tail(chunks))

\* What the completion provider does with a request.  Without stream=True it
\* answers with `text`, or the request raises (`fails`).  With stream=True it
\* delivers `chunks` (a chunk may carry no content) and then completes, or raises.
\* A provider that succeeds streams the text it would have answered with.
ProviderOutcomes ==
    {[fails |-> FALSE, text |-> <<"a","n","s","w","e","r">>, chunks |-> <<<<"a","n","s">>, <<>>, <<"w","e","r">>>>],
     [fails |-> FALSE, text |-> <<"o","k">>, chunks |-> <<<<"o","k">>>>],
     [fails |-> FALSE, text |-> <<>>, chunks |-> <<>>],
     [fails |-> TRUE, text |-> <<>>, chunks |-> <<>>],
     [fails |-> TRUE, text |-> <<>>, chunks |-> <<<<"a","n","s">>>>]}

\* Variant: the provider's exception leaves the function.
generate_chat_response_raises(message, context_livestock, context_eggs, conversation_history, outcome) ==
    LET built == _build_system_prompt(context_livestock, context_eggs)
        messages == build_messages(built.prompt, conversation_history, message)
    IN  [raised |-> built.raised \/ outcome.fails,
         calls |-> IF built.raised THEN <<>>
                   ELSE <<[messages |-> messages, stream |-> FALSE]>>,
         text |-> IF built.raised \/ outcome.fails THEN <<>> ELSE outcome.text]

\* generate_chat_response(message, context_livestock, context_eggs,
\* conversation_history), the provider behaving as `outcome`.  The value tells
\* whether an exception left the function, lists the requests made to the provider
\* and holds the returned text.
generate_chat_response(message, context_livestock, context_eggs, conversation_history, outcome) ==
    LET built == _build_system_prompt(context_livestock, context_eggs)
        messages == build_messages(built.prompt, conversation_history, message)
    IN  IF built.raised
        THEN [raised |-> TRUE, calls |-> <<>>, text |-> <<>>]
        ELSE [raised |-> FALSE,
              calls |-> <<[messages |-> messages, stream |-> FALSE]>>,
              text |-> IF outcome.fails THEN Apology ELSE outcome.text]

\* Variant: the chunks after the first are not yielded.
generate_chat_response_stream_first(message, context_livestock, context_eggs, conversation_history, outcome) ==
    LET built == _build_system_prompt(context_livestock, context_eggs)
        messages == build_messages(built.prompt, conversation_history, message)
    IN  [raised |-> built.raised,
         calls |-> IF built.raised THEN <<>>
                   ELSE <<[messages |-> messages, stream |-> TRUE]>>,
         chunks |-> IF built.raised THEN <<>>
                    ELSE Take(SelectSeq(outcome.chunks, LAMBDA c : c # <<>>), 1)
                         \o (IF outcome.fails THEN <<Apology>> ELSE <<>>)]

\* generate_chat_response_stream(...), iterated to its end, the provider behaving as
\* `outcome`: the chunks yielded.
generate_chat_response_stream(message, context_livestock, context_eggs, conversation_history, outcome) ==
    LET built == _build_system_prompt(context_livestock, context_eggs)
        messages == build_messages(built.prompt, conversation_history, message)
    IN  IF built.raised
        THEN [raised |-> TRUE, calls |-> <<>>, chunks |-> <<>>]
        ELSE [raised |-> FALSE,
              calls |-> <<[messages |-> messages, stream |-> TRUE]>>,
              chunks |-> SelectSeq(outcome.chunks, LAMBDA c : c # <<>>)
                         \o (IF outcome.fails THEN <<Apology>> ELSE <<>>)]

(***************************************************************************)
(* Chat endpoints (ChatView.send, ChatView.stream)                         *)
(***************************************************************************)

DefaultLimit == 10

\* request.data.get('history', [])
history_of(data) == IF "history" \in DOMAIN data THEN data.history ELSE <<>>

\* The Livestock instances of a result list; tags.all() returns the tags of a row in
\* an order the code does not fix.
livestock_objects(ids) ==
    [k \in 1..Len(ids) |->
        [LivestockTable[ids[k]] EXCEPT
            !.tags = CHOOSE all \in [1..Cardinality(@) -> @] : Range(all) = @]]

\* The Egg instances of a result list.
egg_objects(ids) == [k \in 1..Len(ids) |-> EggTable[ids[k]]]

\* Variant: the reply does not count the matched items.
send_reply_no_count(data, context_results, outcome) ==
    LET out == generate_chat_response(data.message, livestock_objects(context_results.results),
                                      history_of(data), <<>>, outcome)
    IN  [op |-> "chat_send", data |-> data, outcome |-> outcome,
         status |-> IF out.raised THEN 500 ELSE 200,
         livestock |-> context_results, eggs |-> NotCalled, calls |-> out.calls,
         body |-> [response |-> out.text, context_count |-> 0]]

\* The part of ChatView.send after the search: the third positional argument of
\* generate_chat_response is context_eggs, so the history lands there and
\* conversation_history keeps its default.  An exception leaving the view is a 500.
send_reply(data, context_results, outcome) ==
    LET out == generate_chat_response(data.message, livestock_objects(context_results.results),
                                      history_of(data), <<>>, outcome)
    IN  [op |-> "chat_send", data |-> data, outcome |-> outcome,
         status |-> IF out.raised THEN 500 ELSE 200,
         livestock |-> context_results, eggs |-> NotCalled, calls |-> out.calls,
         body |-> IF out.raised THEN [response |-> <<>>, context_count |-> 0]
                  ELSE [response |-> out.text,
                        context_count |-> Len(context_results.results)]]

\* ChatView.send on the request body `data`.  A missing message is None, and
\* semantic_search(None) raises on query.lower().
chat_send(data, lrows, outcome) ==
    IF "message" \notin DOMAIN data
    THEN [op |-> "chat_send", data |-> data, outcome |-> outcome, status |-> 500,
          livestock |-> NotCalled, eggs |-> NotCalled, calls |-> <<>>,
          body |-> [response |-> <<>>, context_count |-> 0]]
    ELSE send_reply(data, semantic_search(data.message, DefaultLimit, lrows), outcome)

\* event_stream() of ChatView.stream, iterated to its end: the context event, then
\* the chunks and `done`, or `error` when the generator raises.
event_stream(data, context_results, outcome) ==
    LET out == generate_chat_response_stream(data.message,
                                             livestock_objects(context_results.results),
                                             history_of(data), <<>>, outcome)
        context == [type |-> "context", count |-> Len(context_results.results)]
    IN  [op |-> "chat_stream", data |-> data, outcome |-> outcome, status |-> 200,
         livestock |-> context_results, eggs |-> NotCalled, calls |-> out.calls,
         events |-> IF out.raised
                    THEN <<context, [type |-> "error"]>>
                    ELSE <<context>>
                         \o [k \in 1..Len(out.chunks) |->
                                 [type |-> "chunk", content |-> out.chunks[k]]]
                         \o <<[type |-> "done"]>>]

\* ChatView.stream on the request body `data`: 400 when `not message`.
chat_stream(data, lrows, outcome) ==
    IF "message" \notin DOMAIN data \/ data.message = <<>>
    THEN [op |-> "chat_stream", data |-> data, outcome |-> outcome, status |-> 400,
          livestock |-> NotCalled, eggs |-> NotCalled, calls |-> <<>>, events |-> <<>>]
    ELSE event_stream(data, semantic_search(data.message, DefaultLimit, lrows), outcome)

(***************************************************************************)
(* generate_chat_response_stream, one next() at a time                     *)
(***************************************************************************)

\* Calling the generator function runs none of its body.
new_generator(message, context_livestock, context_eggs, conversation_history, outcome) ==
    [pc |-> "created", message |-> message, context_livestock |-> context_livestock,
     context_eggs |-> context_eggs, history |-> conversation_history,
     outcome |-> outcome, calls |-> <<>>, requested |-> 0, yielded |-> <<>>,
     apologized |-> FALSE, raised |-> FALSE, upstream |-> "none"]

\* Index of the first chunk with content after the first i chunks, Len + 1 if none.
RECURSIVE next_content(_, _)
next_content(chunks, i) ==
    IF i >= Len(chunks) THEN Len(chunks) + 1
    ELSE IF chunks[i + 1] # <<>> THEN i + 1
    ELSE next_content(chunks, i + 1)

\* `for chunk in response:` up to the next yield.  A chunk without content is
\* skipped; the end of the response ends the generator; an exception of the
\* response is caught and the apology is yielded.
pull(g) ==
    LET chunks == g.outcome.chunks
        j == next_content(chunks, g.requested)
    IN  IF j <= Len(chunks)
        THEN [g EXCEPT !.pc = "suspended", !.requested = j,
                       !.yielded = @ \o <<chunks[j]>>]
        ELSE IF g.outcome.fails
        THEN [g EXCEPT !.pc = "suspended", !.requested = Len(chunks),
                       !.yielded = @ \o <<Apology>>, !.apologized = TRUE,
                       !.upstream = "failed"]
        ELSE [g EXCEPT !.pc = "finished", !.requested = Len(chunks),
                       !.upstream = "exhausted"]

\* The first next(): the prompt and the messages are built and the request is made.
\* A provider that fails without a chunk fails in create(): no response was opened.
first_next(g) ==
    LET built == _build_system_prompt(g.context_livestock, g.context_eggs)
        request == [messages |-> build_messages(built.prompt, g.history, g.message),
                    stream |-> TRUE]
    IN  IF built.raised
        THEN [g EXCEPT !.pc = "finished", !.raised = TRUE]
        ELSE IF g.outcome.fails /\ g.outcome.chunks = <<>>
        THEN [g EXCEPT !.pc = "suspended", !.calls = <<request>>,
                       !.yielded = <<Apology>>, !.apologized = TRUE]
        ELSE pull([g EXCEPT !.calls = <<request>>, !.upstream = "open"])

\* Variant: after the apology the loop over the response is entered again.
generator_next_resumes(g) ==
    IF g.pc = "created" THEN first_next(g) ELSE pull(g)

\* next(generator): the body runs to its next yield or to its end.  After the yield
\* of the except branch the function ends.
generator_next(g) ==
    IF g.pc = "created" THEN first_next(g)
    ELSE IF g.apologized THEN [g EXCEPT !.pc = "finished"]
    ELSE pull(g)

\* The consumer stops at a yield and the generator is closed: GeneratorExit is
\* raised at the yield, which `except Exception` does not catch, and the function
\* ends.  It asks the response for nothing more.  No `finally` or `with` of the
\* function closes the response: whether an open response is released at that point
\* is left to the collector and to the client library (`released`).
generator_close(g, released) ==
    [g EXCEPT !.pc = "closed",
              !.upstream = IF @ = "open" /\ released THEN "closed" ELSE @]

(***************************************************************************)
(* Egg freshness (Egg.shelf_life_days, days_until_expiry, freshness_status, *)
(* freshness_percentage)                                                   *)
(***************************************************************************)

\* A DateField is <<d>>, d a day number, or <<>> when NULL.  A property that
\* returns None is <<>>, one that returns v is <<v>>.

\* Egg.shelf_life_days
shelf_life_days(production_date, expiry_date) ==
    IF production_date = <<>> \/ expiry_date = <<>> THEN <<>>
    ELSE <<expiry_date[1] - production_date[1]>>

\* Egg.days_until_expiry, on day `now`
days_until_expiry(expiry_date, now) ==
    IF expiry_date = <<>> THEN <<>> ELSE <<expiry_date[1] - now>>

\* Variant: the third day counts as use_soon.
freshness_status_early(expiry_date, now) ==
    LET days_left == days_until_expiry(expiry_date, now)
    IN  IF days_left = <<>> THEN "unknown"
        ELSE IF days_left[1] < 0 THEN "expired"
        ELSE IF days_left[1] < 3 THEN "expiring_soon"
        ELSE IF days_left[1] <= 7 THEN "use_soon"
        ELSE "fresh"

\* Egg.freshness_status
freshness_status(expiry_date, now) ==
    LET days_left == days_until_expiry(expiry_date, now)
    IN  IF days_left = <<>> THEN "unknown"
        ELSE IF days_left[1] < 0 THEN "expired"
        ELSE IF days_left[1] <= 3 THEN "expiring_soon"
        ELSE IF days_left[1] <= 7 THEN "use_soon"
        ELSE "fresh"

\* Python floats are IEEE 754 doubles.  A positive double is [m, e]: m the 53 bits
\* of its significand, first bit 1, most significant first, and e the exponent of
\* that first bit.
Precision == 53

Zeros(n) == [k \in 1..n |-> 0]

\* a + b + c for bit strings of one length: one bit more, the carry out first.
RECURSIVE AddFrom(_, _, _, _)
AddFrom(a, b, i, c) ==
    IF i = 0 THEN <<c>>
    ELSE IF a[i] + b[i] + c >= 2 THEN AddFrom(a, b, i - 1, 1) \o <<a[i] + b[i] + c - 2>>
    ELSE AddFrom(a, b, i - 1, 0) \o <<a[i] + b[i] + c>>

RECURSIVE StripZeros(_)
StripZeros(bits) ==
    IF bits # <<>> /\ bits[1] = 0 THEN StripZeros(Tail(bits)) ELSE bits

\* Round to nearest, ties to even: Precision bits kept, `up` telling whether what
\* was dropped rounds upward; e is the exponent of the first bit kept.
round_kept(kept, up, e) ==
    IF ~up THEN [m |-> kept, e |-> e]
    ELSE LET sum == AddFrom(kept, Zeros(Precision), Precision, 1)
         IN  IF sum[1] = 1 THEN [m |-> SubSeq(sum, 1, Precision), e |-> e + 1]
             ELSE [m |-> Tail(sum), e |-> e]

\* r, s scaled by powers of two until s <= r < 2s; e counts the scaling.
RECURSIVE Normalize(_, _, _)
Normalize(r, s, e) ==
    IF r < s THEN Normalize(2 * r, s, e - 1)
    ELSE IF r >= 2 * s THEN Normalize(r, 2 * s, e + 1)
    ELSE [r |-> r, s |-> s, e |-> e]

\* n more bits of the quotient by long division; rem is the remainder so far.
RECURSIVE DivBits(_, _, _, _)
DivBits(rem, s, n, acc) ==
    IF n = 0 THEN [bits |-> acc, rem |-> rem]
    ELSE IF 2 * rem >= s THEN DivBits(2 * rem - s, s, n - 1, acc \o <<1>>)
    ELSE DivBits(2 * rem, s, n - 1, acc \o <<0>>)

\* r / s for ints r > 0, s > 0: the double nearest to the quotient.
true_div(r, s) ==
    LET n == Normalize(r, s, 0)
        q == DivBits(n.r - n.s, n.s, Precision - 1, <<1>>)
        up == 2 * q.rem > n.s \/ (2 * q.rem = n.s /\ q.bits[Precision] = 1)
    IN  round_kept(q.bits, up, n.e)

\* x * 100 for a positive double x: 100 = 64 + 32 + 4, the exact product rounded.
times_100(x) ==
    LET w == Precision + 7
        sh(k) == Zeros(w - Precision - k) \o x.m \o Zeros(k)
        p1 == Tail(AddFrom(sh(6), sh(5), w, 0))
        p == StripZeros(Tail(AddFrom(p1, sh(2), w, 0)))
        dropped == SubSeq(p, Precision + 1, Len(p))
        up == /\ dropped # <<>>
              /\ dropped[1] = 1
              /\ \/ \E k \in 2..Len(dropped) : dropped[k] = 1
                 \/ p[Precision] = 1
    IN  round_kept(SubSeq(p, 1, Precision), up, x.e + Len(p) - Precision)

RECURSIVE BitsToInt(_)
BitsToInt(bits) ==
    IF bits = <<>> THEN 0 ELSE 2 * BitsToInt(SubSeq(bits, 1, Len(bits) - 1)) + bits[Len(bits)]

\* int(x) of a positive double: the digits before the binary point.
int_of_float(x) == IF x.e < 0 THEN 0 ELSE BitsToInt(SubSeq(x.m, 1, x.e + 1))

\* Egg.freshness_percentage: min(100, int((remaining / shelf_life) * 100))
freshness_percentage(production_date, expiry_date, now) ==
    LET shelf_life == shelf_life_days(production_date, expiry_date)
        days_left == days_until_expiry(expiry_date, now)
    IN  IF shelf_life = <<>> \/ days_left = <<>> \/ shelf_life[1] <= 0 THEN <<>>
        ELSE LET remaining == IF days_left[1] > 0 THEN days_left[1] ELSE 0
                 pct == IF remaining = 0 THEN 0
                        ELSE int_of_float(times_100(true_div(remaining, shelf_life[1])))
             IN  <<IF pct < 100 THEN pct ELSE 100>>

(***************************************************************************)
(* Requests                                                                *)
(***************************************************************************)

\* Queries given to the livestock engine: core queries, some of them behind a run
\* of the filler word "the" (a stop word of three letters).
CoreQueries ==
    { <<>>,
      <<" ">>,
      <<"g","o","a","t">>,
      <<"B","o","e","r"," ","g","o","a","t">>,
      <<"c","o","w">>,
      <<"k","a","n","o"," ","g","o","a","t">>,
      <<"h","e">>,
      <<"x","y","z">>,
      <<"g","o","a","t"," ","u","n","d","e","r"," ","5","0","k">>,
      <<"g","o","a","t"," ","a","b","o","v","e"," ","5","0","k">>,
      <<"h","e","a","l","t","h","y">>,
      <<"p","r","e","m","i","u","m">>,
      <<"l","a","g","o","s">>,
      <<"s","t","r","o","n","g">>,
      <<"a","n"," ","o","x">>,
      <<"a","n","y"," ","a","n","d"," ","a","l","l">>,
      <<"s","h","e","e","p">>,
      <<"f","e","m","a","l","e"," ","c","o","w">>,
      <<"S","h","e"," ","g","o","a","t">>,
      <<"G","O","A","T"," ","i","n"," ","K","a","n","o">> }

PaddedQueries ==
    { <<"l","a","g","o","s">>,
      <<"g","o","a","t">>,
      <<"x","y","z">> }

MaxPad == 5

RECURSIVE Pad(_)
Pad(n) == IF n = 0 THEN <<>> ELSE <<"t", "h", "e", " ">> \o Pad(n - 1)

Queries == CoreQueries \cup {Pad(n) \o q : n \in {MaxPad - 1, MaxPad}, q \in PaddedQueries}

\* Queries given to the egg engine.
EggQueries ==
    { <<>>,
      <<"e","g","g","s">>,
      <<"q","u","a","i","l"," ","e","g","g","s">>,
      <<"f","r","e","s","h"," ","e","g","g","s">>,
      <<"s","m","a","l","l"," ","c","h","i","c","k","e","n"," ","e","g","g","s">>,
      <<"l","a","r","g","e"," ","e","g","g","s">>,
      <<"e","g","g","s"," ","u","n","d","e","r"," ","₦","3","k">>,
      <<"c","r","a","t","e"," ","o","f"," ","3","0"," ","e","g","g","s">>,
      <<"e","g","g","s"," ","i","n"," ","A","b","u","j","a">>,
      <<"h","a","t","c","h","i","n","g">>,
      <<"x","y","z">>,
      <<"t","u","r","k","e","y">>,
      <<"L","a","y","e","r">> }

\* Queries given to smart_search.
SmartQueries ==
    { <<"f","r","e","s","h"," ","e","g","g","s"," ","i","n"," ","L","a","g","o","s">>,
      <<"B","o","e","r"," ","g","o","a","t"," ","b","u","c","k">>,
      <<"c","h","i","c","k","e","n"," ","f","o","r"," ","s","a","l","e">>,
      <<"x","y","z">>,
      <<"g","o","a","t"," ","e","g","g","s">>,
      <<>> }

\* Queries given to the intent classifier: up to MaxQueryWords words, blank-separated.
IntentWords ==
    << <<"e","g","g","s">>,
       <<"c","r","a","t","e">>,
       <<"S","h","e","l","l">>,
       <<"g","o","a","t">>,
       <<"s","h","e","e","p">>,
       <<"c","h","i","c","k","e","n">>,
       <<"l","a","y","e","r">>,
       <<"t","h","e","n">>,
       <<"f","r","e","s","h">>,
       <<"x","y","z">> >>

MaxQueryWords == 3

RECURSIVE Join(_)
Join(ws) ==
    IF ws = <<>> THEN <<>>
    ELSE IF Len(ws) = 1 THEN ws[1]
    ELSE ws[1] \o <<" ">> \o Join(Tail(ws))

IntentQueries ==
    UNION {{Join([i \in 1..n |-> IntentWords[f[i]]]) : f \in [1..n -> 1..Len(IntentWords)]} :
           n \in 0..MaxQueryWords}

\* Messages and histories given to the chat operations.
ChatMessages ==
    { <<"g","o","a","t">>,
      <<"f","r","e","s","h"," ","e","g","g","s"," ","i","n"," ","L","a","g","o","s">>,
      <<"c","h","i","c","k","e","n">> }

MaxHistory == 22

Contents == <<"hello", "any goats?", "yes">>

\* The i-th turn of a conversation: roles alternate, contents repeat.
Turn(i) ==
    [role |-> IF i % 2 = 1 THEN "user" ELSE "assistant", content |-> Contents[(i % 3) + 1]]

History(n) == [i \in 1..n |-> Turn(i)]

Histories == {History(n) : n \in 0..MaxHistory}

\* Histories given to the generator iterated step by step: none, short, longer than
\* the window.
StreamHistories == {History(n) : n \in {0, 2, MaxHistory}}

\* Request bodies of the chat endpoints: message and history are optional keys.
ChatBodies ==
    {[message |-> m, history |-> h] : m \in ChatMessages \cup {<<>>}, h \in Histories}
        \cup {[message |-> m] : m \in ChatMessages \cup {<<>>}}
        \cup {[history |-> h] : h \in Histories}

\* Candidate lists given to the generator when it is called directly.
LivestockContexts == {<<>>, livestock_objects(<<3, 1>>)}

EggContexts == {<<>>, egg_objects(<<2, 1>>)}

\* Queries given to the livestock term extractor: a lead, a price word, blanks, a
\* number and a tail.
TermQueries ==
    LET leads == { <<>>,
                   <<"g","o","a","t","s"," ">>,
                   <<"C","h","e","a","p"," ","b","u","l","l","s"," ">>,
                   <<"F","e","m","a","l","e"," ">>,
                   <<"e","w","e"," ">> }
        price_words == { <<"u","n","d","e","r">>,
                         <<"b","e","l","o","w">>,
                         <<"a","b","o","v","e">>,
                         <<"U","n","d","e","r">>,
                         <<"u","p","t","o">> }
        gaps == { <<>>, <<" ">>, <<" "," ">> }
        numbers == { <<"5","0","k">>,
                     <<"1",",","5","0","0">>,
                     <<"1",",","5","0","0","k">>,
                     <<"5","0">>,
                     <<"k","5">>,
                     <<"5","k","5">>,
                     <<>> }
        tails == { <<>>,
                   <<" ","i","n"," ","L","a","g","o","s">>,
                   <<" ","a","b","o","v","e"," ","2","0","k">>,
                   <<" ","o","r"," ","u","n","d","e","r"," ","7",",","0","0","0">> }
    IN  {a \o w \o g \o n \o t :
            a \in leads, w \in price_words, g \in gaps, n \in numbers, t \in tails}

MaxDay == 10

\* Day numbers of the dates of an egg and of the clock: the first days, and two
\* later ones that give a shelf life of 50 days with 29 left.
Dates == 0..MaxDay \cup {21, 50}

OptionalDates == {<<>>} \cup {<<d>> : d \in Dates}

MaxLimit == 2

Limits == 1..MaxLimit

(***************************************************************************)
(* State                                                                   *)
(***************************************************************************)

VARIABLES
    livestock,   \* the rows of the Livestock table
    eggs,        \* the rows of the Egg table
    today,       \* timezone.now().date(), in days
    resp,        \* the response of the request being served, or Idle
    stream       \* the generator of generate_chat_response_stream being iterated

vars == <<livestock, eggs, today, resp, stream>>

Idle == [op |-> "idle"]

NoStream == [pc |-> "none"]

\* The store after the migrations: no rows.
Init ==
    /\ livestock = {}
    /\ eggs = {}
    /\ today = 0
    /\ stream = NoStream
    /\ resp = Idle

\* Admin: a Livestock row is created (is_sold defaults to False).
CreateLivestock(i) ==
    /\ resp = Idle
    /\ \A r \in livestock : r.id # i
    /\ livestock' = livestock \cup {[id |-> i, is_sold |-> FALSE]}
    /\ UNCHANGED <<eggs, today, resp, stream>>

\* Admin: a row is marked sold.
MarkSold(i) ==
    /\ resp = Idle
    /\ [id |-> i, is_sold |-> FALSE] \in livestock
    /\ livestock' = (livestock \ {[id |-> i, is_sold |-> FALSE]})
                        \cup {[id |-> i, is_sold |-> TRUE]}
    /\ UNCHANGED <<eggs, today, resp, stream>>

\* Admin: a row is deleted.
DeleteLivestock(i) ==
    /\ resp = Idle
    /\ \E r \in livestock : r.id = i
    /\ livestock' = {r \in livestock : r.id # i}
    /\ UNCHANGED <<eggs, today, resp, stream>>

\* An Egg row is saved (is_available defaults to True).
CreateEgg(i) ==
    /\ resp = Idle
    /\ \A r \in eggs : r.id # i
    /\ eggs' = eggs \cup {[id |-> i, is_available |-> TRUE]}
    /\ UNCHANGED <<livestock, today, resp, stream>>

\* An Egg row is saved with is_available = False.
MarkUnavailable(i) ==
    /\ resp = Idle
    /\ [id |-> i, is_available |-> TRUE] \in eggs
    /\ eggs' = (eggs \ {[id |-> i, is_available |-> TRUE]})
                   \cup {[id |-> i, is_available |-> FALSE]}
    /\ UNCHANGED <<livestock, today, resp, stream>>

\* An Egg row is deleted.
DeleteEgg(i) ==
    /\ resp = Idle
    /\ \E r \in eggs : r.id = i
    /\ eggs' = {r \in eggs : r.id # i}
    /\ UNCHANGED <<livestock, today, resp, stream>>

\* AIService.semantic_search(query, limit)
SemanticSearch(query, limit) ==
    /\ resp = Idle
    /\ resp' = [op |-> "semantic_search", query |-> query, limit |-> limit,
                livestock |-> semantic_search(query, limit, livestock),
                eggs |-> NotCalled]
    /\ UNCHANGED <<livestock, eggs, today, stream>>

\* AIService.semantic_search_eggs(query, limit)
SemanticSearchEggs(query, limit) ==
    /\ resp = Idle
    /\ resp' = [op |-> "semantic_search_eggs", query |-> query, limit |-> limit,
                livestock |-> NotCalled,
                eggs |-> semantic_search_eggs(query, limit, eggs, today)]
    /\ UNCHANGED <<livestock, eggs, today, stream>>

\* AIService.smart_search(query, limit)
SmartSearch(query, limit) ==
    /\ resp = Idle
    /\ LET out == smart_search(query, limit, livestock, eggs, today)
       IN  resp' = [op |-> "smart_search", query |-> query, limit |-> limit,
                    intent |-> out.intent, livestock |-> out.livestock, eggs |-> out.eggs]
    /\ UNCHANGED <<livestock, eggs, today, stream>>

\* The response is returned to the caller.
Return ==
    /\ resp # Idle
    /\ resp' = Idle
    /\ UNCHANGED <<livestock, eggs, today, stream>>

Next ==
    \/ \E i \in LivestockIds : CreateLivestock(i)
    \/ \E i \in LivestockIds : MarkSold(i)
    \/ \E i \in LivestockIds : DeleteLivestock(i)
    \/ \E i \in EggIds : CreateEgg(i)
    \/ \E i \in EggIds : MarkUnavailable(i)
    \/ \E i \in EggIds : DeleteEgg(i)
    \/ \E q \in Queries, n \in Limits : SemanticSearch(q, n)
    \/ \E q \in EggQueries, n \in Limits : SemanticSearchEggs(q, n)
    \/ \E q \in SmartQueries, n \in Limits : SmartSearch(q, n)
    \/ Return

Spec == Init /\ [][Next]_vars

(***************************************************************************)
(* The intent classifier applied to a query                                *)
(***************************************************************************)

InitIntent ==
    /\ livestock = {}
    /\ eggs = {}
    /\ today = 0
    /\ stream = NoStream
    /\ resp \in {[op |-> "query", query |-> q] : q \in IntentQueries}

\* AIService._detect_query_intent(query)
DetectQueryIntent ==
    /\ resp.op = "query"
    /\ resp' = [op |-> "_detect_query_intent", query |-> resp.query,
                intent |-> _detect_query_intent(resp.query)]
    /\ UNCHANGED <<livestock, eggs, today, stream>>

NextIntent == DetectQueryIntent

SpecIntent == InitIntent /\ [][NextIntent]_vars

(***************************************************************************)
(* The term extractor applied to a query                                   *)
(***************************************************************************)

InitTerms ==
    /\ livestock = {}
    /\ eggs = {}
    /\ today = 0
    /\ stream = NoStream
    /\ LET leads == { <<>>, <<"f","r","e","s","h"," ">>, <<"C","h","i","c","k","e","n"," ">> }
           sizes == { <<"e","x","t","r","a"," ","l","a","r","g","e">>,
                      <<"e","x","t","r","a","-","l","a","r","g","e">>,
                      <<"E","x","t","r","a"," ","L","a","r","g","e">>,
                      <<"X","L">>,
                      <<"l","a","r","g","e">>,
                      <<"b","i","g">>,
                      <<"s","m","a","l","l">>,
                      <<"m","e","d","i","u","m">>,
                      <<"j","u","m","b","o">>,
                      <<"e","x","t","r","a">>,
                      <<"e","g","g","s">> }
           tails == { <<>>, <<" ","e","g","g","s">>, <<" ","e","g","g","s"," ","u","n","d","e","r"," ","3","0","0","0">> }
           egg_queries == {a \o z \o t : a \in leads, z \in sizes, t \in tails}
       IN  resp \in {[op |-> "query", query |-> q] : q \in TermQueries \cup egg_queries}

\* AIService._extract_search_terms(query)
ExtractSearchTerms ==
    /\ resp.op = "query"
    /\ resp' = [op |-> "_extract_search_terms", query |-> resp.query,
                terms |-> _extract_search_terms(resp.query)]
    /\ UNCHANGED <<livestock, eggs, today, stream>>

\* AIService._extract_egg_search_terms(query)
ExtractEggSearchTerms ==
    /\ resp.op = "query"
    /\ resp' = [op |-> "_extract_egg_search_terms", query |-> resp.query,
                terms |-> _extract_egg_search_terms(resp.query)]
    /\ UNCHANGED <<livestock, eggs, today, stream>>

NextTerms == ExtractSearchTerms \/ ExtractEggSearchTerms

SpecTerms == InitTerms /\ [][NextTerms]_vars

(***************************************************************************)
(* The chat operations over a seeded store                                 *)
(***************************************************************************)

InitChat ==
    /\ livestock \in {{}, {[id |-> 1, is_sold |-> FALSE], [id |-> 2, is_sold |-> TRUE],
                           [id |-> 3, is_sold |-> FALSE]}}
    /\ eggs \in {{}, {[id |-> 1, is_available |-> TRUE], [id |-> 2, is_available |-> TRUE]}}
    /\ today = 0
    /\ stream = NoStream
    /\ resp = Idle

\* AIService.generate_chat_response(message, context_livestock, context_eggs,
\* conversation_history)
GenerateChatResponse(message, cl, ce, history, outcome) ==
    /\ resp = Idle
    /\ LET out == generate_chat_response(message, cl, ce, history, outcome)
       IN  resp' = [op |-> "generate_chat_response", message |-> message,
                    context_livestock |-> cl, context_eggs |-> ce,
                    history |-> history, outcome |-> outcome,
                    raised |-> out.raised, calls |-> out.calls,
                    text |-> out.text]
    /\ UNCHANGED <<livestock, eggs, today, stream>>

\* AIService.generate_chat_response_stream(...), iterated to its end
GenerateChatResponseStream(message, cl, ce, history, outcome) ==
    /\ resp = Idle
    /\ LET out == generate_chat_response_stream(message, cl, ce, history, outcome)
       IN  resp' = [op |-> "generate_chat_response_stream", message |-> message,
                    context_livestock |-> cl, context_eggs |-> ce,
                    history |-> history, outcome |-> outcome,
                    raised |-> out.raised, calls |-> out.calls,
                    chunks |-> out.chunks]
    /\ UNCHANGED <<livestock, eggs, today, stream>>

\* POST chat/send
ChatSend(data, outcome) ==
    /\ resp = Idle
    /\ resp' = chat_send(data, livestock, outcome)
    /\ UNCHANGED <<livestock, eggs, today, stream>>

\* POST chat/stream
ChatStream(data, outcome) ==
    /\ resp = Idle
    /\ resp' = chat_stream(data, livestock, outcome)
    /\ UNCHANGED <<livestock, eggs, today, stream>>

NextChat ==
    \/ \E m \in ChatMessages, cl \in LivestockContexts, ce \in EggContexts,
          h \in Histories, o \in ProviderOutcomes : GenerateChatResponse(m, cl, ce, h, o)
    \/ \E m \in ChatMessages, cl \in LivestockContexts, ce \in EggContexts,
          h \in Histories, o \in ProviderOutcomes : GenerateChatResponseStream(m, cl, ce, h, o)
    \/ \E d \in ChatBodies, o \in ProviderOutcomes : ChatSend(d, o)
    \/ \E d \in ChatBodies, o \in ProviderOutcomes : ChatStream(d, o)
    \/ \E q \in SmartQueries, n \in Limits : SmartSearch(q, n)
    \/ Return

SpecChat == InitChat /\ [][NextChat]_vars

(***************************************************************************)
(* A consumer iterating generate_chat_response_stream                      *)
(***************************************************************************)

InitStream ==
    /\ livestock = {}
    /\ eggs = {}
    /\ today = 0
    /\ stream = NoStream
    /\ resp = Idle

\* generate_chat_response_stream(message, context_livestock, context_eggs,
\* conversation_history) is called: a generator is returned.
StreamCall(message, cl, ce, history, outcome) ==
    /\ stream = NoStream
    /\ stream' = new_generator(message, cl, ce, history, outcome)
    /\ UNCHANGED <<livestock, eggs, today, resp>>

\* The consumer asks for the next chunk.
StreamNext ==
    /\ stream.pc \in {"created", "suspended"}
    /\ stream' = generator_next(stream)
    /\ UNCHANGED <<livestock, eggs, today, resp>>

\* The consumer stops iterating after a chunk.
StreamClose ==
    /\ stream.pc = "suspended"
    /\ \E released \in BOOLEAN : stream' = generator_close(stream, released)
    /\ UNCHANGED <<livestock, eggs, today, resp>>

\* The consumer drops the ended generator.
StreamDrop ==
    /\ stream.pc \in {"finished", "closed"}
    /\ stream' = NoStream
    /\ UNCHANGED <<livestock, eggs, today, resp>>

NextStream ==
    \/ \E m \in ChatMessages, cl \in LivestockContexts, ce \in EggContexts,
          h \in StreamHistories, o \in ProviderOutcomes : StreamCall(m, cl, ce, h, o)
    \/ StreamNext
    \/ StreamClose
    \/ StreamDrop

SpecStream == InitStream /\ [][NextStream]_vars

\* The consumer of a generator that has not ended asks for the next chunk or closes
\* it: it does not wait for ever.
SpecStreamFair == SpecStream /\ WF_vars(StreamNext \/ StreamClose)

(***************************************************************************)
(* The freshness properties of an egg                                      *)
(***************************************************************************)

\* An egg whose properties are read, or no request yet (Idle) with the eggs of
\* EggTable in the store.
InitFresh ==
    /\ livestock = {}
    /\ eggs = {[id |-> i, is_available |-> TRUE] : i \in EggIds}
    /\ today \in Dates
    /\ stream = NoStream
    /\ resp \in {Idle} \cup {[op |-> "egg", production_date |-> p, expiry_date |-> x] :
                                p \in OptionalDates, x \in OptionalDates}

\* egg.freshness_status
FreshnessStatus ==
    /\ resp.op = "egg"
    /\ resp' = [op |-> "freshness_status", production_date |-> resp.production_date,
                expiry_date |-> resp.expiry_date,
                value |-> freshness_status(resp.expiry_date, today)]
    /\ UNCHANGED <<livestock, eggs, today, stream>>

\* egg.freshness_percentage
FreshnessPercentage ==
    /\ resp.op = "egg"
    /\ resp' = [op |-> "freshness_percentage", production_date |-> resp.production_date,
                expiry_date |-> resp.expiry_date,
                value |-> freshness_percentage(resp.production_date, resp.expiry_date,
                                               today)]
    /\ UNCHANGED <<livestock, eggs, today, stream>>

\* GET eggs/freshness-filter/?status=<status>
FreshnessFilter(status) ==
    /\ resp = Idle
    /\ resp' = [op |-> "freshness_filter", status |-> status,
                results |-> freshness_filter(status, eggs, today)]
    /\ UNCHANGED <<livestock, eggs, today, stream>>

NextFresh ==
    \/ FreshnessStatus
    \/ FreshnessPercentage
    \/ \E status \in {"None", "fresh", "use_soon", "expiring_soon", "expired", "all"} :
           FreshnessFilter(status)
    \/ \E q \in {<<"f","r","e","s","h"," ","e","g","g","s">>, <<"e","g","g","s">>}, n \in Limits :
           SemanticSearchEggs(q, n)

SpecFresh == InitFresh /\ [][NextFresh]_vars

(***************************************************************************)
(* The prompt builder applied to candidate lists                           *)
(***************************************************************************)

MaxCandidates == 6

\* Candidate lists of 0..MaxCandidates instances.  The descriptions are 1 (0 for an
\* egg, whose description may be blank), 150, 151 and 300 characters long, the
\* health texts 100 and 101, and an instance has up to 4 tags.
InitPrompt ==
    /\ livestock = {}
    /\ eggs = {}
    /\ today = 0
    /\ stream = NoStream
    /\ LET text(n) == [i \in 1..n |-> DigitChars[(i % 10) + 1]]
           tag_names == << <<"p","r","e","m","i","u","m">>, <<"g","r","e","e","n">>,
                           <<"n","e","w">>, <<"s","a","l","e">> >>
           tags(o) == [i \in 1..(o \div 4) |-> tag_names[((i + o) % 4) + 1]]
           stock(o) == [name |-> <<"S">> \o text(o),
                        health_status |-> text(HealthChars + (o % 2)),
                        tags |-> tags(o),
                        description |-> text(<<1, DescriptionChars, DescriptionChars + 1,
                                               2 * DescriptionChars>>[(o % 4) + 1])]
           egg(o) == [name |-> <<"E">> \o text(o),
                      expiry_date |-> <<o>>,
                      tags |-> tags(o),
                      description |-> text(<<0, DescriptionChars, DescriptionChars + 1,
                                             2 * DescriptionChars>>[(o % 4) + 1])]
       IN  resp \in {[op |-> "candidates",
                      livestock_list |-> [k \in 1..nl |-> stock((first + k) % 20)],
                      eggs_list |-> [k \in 1..ne |-> egg((first + 2 * k) % 20)]] :
                        nl \in 0..MaxCandidates, ne \in 0..MaxCandidates, first \in 0..19}

\* AIService._build_system_prompt(livestock_list, eggs_list)
BuildSystemPrompt ==
    /\ resp.op = "candidates"
    /\ resp' = [op |-> "_build_system_prompt", livestock_list |-> resp.livestock_list,
                eggs_list |-> resp.eggs_list,
                built |-> _build_system_prompt(resp.livestock_list, resp.eggs_list)]
    /\ UNCHANGED <<livestock, eggs, today, stream>>

SpecPrompt == InitPrompt /\ [][BuildSystemPrompt]_vars

(***************************************************************************)
(* Concurrent calls on one catalog                                         *)
(*                                                                         *)
(* Every request constructs its own AIService; a call keeps its state in   *)
(* locals.  A call is a record of its arguments, its position `pc` and its *)
(* locals; one step is one catalog query or one provider request.          *)
(***************************************************************************)

\* One catalog query of semantic_search(c.query, c.limit) over the rows of the store.
search_step(c, rows) ==
    LET unsold == Unsold(rows)
        words == findall_words3(lower(c.query))
        done(results) == [c EXCEPT !.pc = "done", !.results = results]
    IN  IF c.pc = "tier1"
        THEN LET terms == _extract_search_terms(c.query)
                 strict == livestock_list(
                               {i \in unsold : tier1_filter(terms, LivestockTable[i])}, c.limit)
             IN  IF runs_broad(strict, c.query, words) THEN [c EXCEPT !.pc = "tier2"]
                 ELSE IF runs_recent(strict) THEN [c EXCEPT !.pc = "tier3"]
                 ELSE done(strict)
        ELSE IF c.pc = "tier2"
        THEN LET broad == livestock_list(
                              {i \in unsold : broad_q(Take(words, BroadWords), LivestockTable[i])},
                              c.limit)
             IN  IF runs_recent(broad) THEN [c EXCEPT !.pc = "tier3"] ELSE done(broad)
        ELSE done(livestock_list(unsold, c.limit))

\* Variant: the history list of the caller is cut to its last turns in place.
generate_step_cuts_history(c) ==
    IF c.pc = "prompt"
    THEN LET built == _build_system_prompt(c.context_livestock, c.context_eggs)
         IN  IF built.raised THEN [c EXCEPT !.pc = "done", !.raised = TRUE]
             ELSE [c EXCEPT !.pc = "request",
                            !.conversation_history = history_window(@),
                            !.messages = build_messages(built.prompt, c.conversation_history,
                                                        c.message)]
    ELSE [c EXCEPT !.pc = "done",
                   !.calls = <<[messages |-> c.messages, stream |-> FALSE]>>,
                   !.text = IF c.outcome.fails THEN Apology ELSE c.outcome.text]

\* One step of generate_chat_response: the prompt and the messages are built, then
\* the request is made.  conversation_history is the caller's list.
generate_step(c) ==
    IF c.pc = "prompt"
    THEN LET built == _build_system_prompt(c.context_livestock, c.context_eggs)
         IN  IF built.raised THEN [c EXCEPT !.pc = "done", !.raised = TRUE]
             ELSE [c EXCEPT !.pc = "request",
                            !.messages = build_messages(built.prompt, c.conversation_history,
                                                        c.message)]
    ELSE [c EXCEPT !.pc = "done",
                   !.calls = <<[messages |-> c.messages, stream |-> FALSE]>>,
                   !.text = IF c.outcome.fails THEN Apology ELSE c.outcome.text]

\* Two calls are in flight on a seeded catalog; `given` is the history as it was
\* passed, `before` the catalog at the start and `schedule` the callers stepped.
InitConcurrent ==
    /\ livestock \in {{[id |-> 1, is_sold |-> FALSE]},
                      {[id |-> 1, is_sold |-> FALSE], [id |-> 2, is_sold |-> TRUE],
                       [id |-> 3, is_sold |-> FALSE]}}
    /\ eggs = {[id |-> 1, is_available |-> TRUE]}
    /\ today = 0
    /\ stream = NoStream
    /\ LET searches == {[kind |-> "semantic_search", query |-> q, limit |-> n,
                         pc |-> "tier1", results |-> <<>>] :
                            q \in {<<"g","o","a","t">>, <<"x","y","z">>, <<" ">>,
                                   <<"k","a","n","o"," ","g","o","a","t">>},
                            n \in {1, MaxLimit}}
           chats == {[kind |-> "generate_chat_response", message |-> <<"g","o","a","t">>,
                      context_livestock |-> livestock_objects(<<1>>),
                      context_eggs |-> egg_objects(<<1>>),
                      conversation_history |-> h, given |-> h, outcome |-> o,
                      pc |-> "prompt", messages |-> <<>>, raised |-> FALSE,
                      calls |-> <<>>, text |-> <<>>] :
                         h \in {<<>>, History(MaxHistory)}, o \in ProviderOutcomes}
       IN  resp \in {[op |-> "concurrent",
                      before |-> [livestock |-> livestock, eggs |-> eggs],
                      schedule |-> <<>>,
                      calls |-> <<a, b>>] : a \in searches \cup chats, b \in searches \cup chats}

\* The call of caller i takes its next step.
Step(i) ==
    /\ resp.op = "concurrent"
    /\ resp.calls[i].pc # "done"
    /\ resp' = [resp EXCEPT !.schedule = Append(@, i),
                            !.calls[i] = IF @.kind = "semantic_search"
                                         THEN search_step(@, livestock)
                                         ELSE generate_step(@)]
    /\ UNCHANGED <<livestock, eggs, today, stream>>

NextConcurrent == \E i \in {1, 2} : Step(i)

SpecConcurrent == InitConcurrent /\ [][NextConcurrent]_vars

(***************************************************************************)
(* Properties                                                              *)
(***************************************************************************)

Min(a, b) == IF a < b THEN a ELSE b

\* The response holds the value of a livestock search / of an egg search.
LivestockSearched ==
    resp.op \in {"semantic_search", "smart_search"} /\ resp.livestock.trace # <<>>

EggsSearched ==
    resp.op \in {"semantic_search_eggs", "smart_search"} /\ resp.eggs.trace # <<>>

\* C1: livestock search and egg search return at most `limit` items, and every
\* returned item is available (is_sold = false / is_available = true), whichever
\* tier produced the result.
C1_AtMostLimitAvailable ==
    resp.op \in {"semantic_search", "semantic_search_eggs", "smart_search"} =>
        /\ Len(resp.livestock.results) <= resp.limit
        /\ \A k \in 1..Len(resp.livestock.results) :
               [id |-> resp.livestock.results[k], is_sold |-> FALSE] \in livestock
        /\ Len(resp.eggs.results) <= resp.limit
        /\ \A k \in 1..Len(resp.eggs.results) :
               [id |-> resp.eggs.results[k], is_available |-> TRUE] \in eggs

\* C1 witness: both engines answered from the fallback tier; the livestock list
\* was cut at the limit, a sold row and an unavailable egg exist.
C1_Witness ==
    /\ resp.op = "smart_search"
    /\ \E k \in 1..Len(resp.livestock.trace) : resp.livestock.trace[k].tier = 3
    /\ \E k \in 1..Len(resp.eggs.trace) : resp.eggs.trace[k].tier = 3
    /\ Len(resp.livestock.results) = resp.limit
    /\ Cardinality(Unsold(livestock)) > resp.limit
    /\ resp.eggs.results # <<>>
    /\ \E r \in eggs : ~r.is_available

\* C2: the livestock tiers run in order and stop at the first non-empty one: tier 2
\* only after an empty tier 1 and for a non-blank query, tier 3 only after empty
\* tiers 1 and 2; a non-empty tier 1 is the result, with nothing added.
C2_TiersInOrder ==
    LivestockSearched =>
        LET tr == resp.livestock.trace
        IN  /\ tr[1].tier = 1
            /\ \A j, k \in 1..Len(tr) : j < k => tr[j].tier < tr[k].tier
            /\ \A k \in 1..Len(tr) :
                   tr[k].tier = 2 => tr[1].rows = <<>> /\ strip(resp.query) # <<>>
            /\ \A k \in 1..Len(tr) :
                   tr[k].tier = 3 => \A j \in 1..(k - 1) : tr[j].rows = <<>>
            /\ tr[1].rows # <<>> => Len(tr) = 1 /\ resp.livestock.results = tr[1].rows
            /\ resp.livestock.results = tr[Len(tr)].rows

\* C2 witness: all three tiers ran, the first two empty, the third not.
C2_Witness ==
    /\ LivestockSearched
    /\ Len(resp.livestock.trace) = 3
    /\ resp.livestock.results # <<>>

\* Tier-2 eligibility as the claim words it: one of the first five words of length
\* >= 3 of the lower-cased query occurs in name, breed, description, category name
\* or location (letter case ignored, as by icontains).
C3_Eligible(query, s) ==
    \E w \in Range(Take(findall_words3(lower(query)), 5)) :
        \E f \in {s.name, s.breed, s.description, s.category, s.location} :
            In(w, lower(f))

\* C3: when tier 1 is empty and the query is non-blank, the unsold rows eligible for
\* tier 2 are exactly those with one of the first five words in one of the five
\* fields; none of tier 1's narrowing filters applies.
C3_BroadTierUnfiltered ==
    LivestockSearched =>
        LET tr == resp.livestock.trace
            elig == {i \in Unsold(livestock) : C3_Eligible(resp.query, LivestockTable[i])}
        IN  (tr[1].rows = <<>> /\ strip(resp.query) # <<>>) =>
                IF elig = {}
                THEN \A k \in 1..Len(tr) : tr[k].tier = 2 => tr[k].rows = <<>>
                ELSE /\ Len(tr) = 2
                     /\ tr[2].tier = 2
                     /\ Range(tr[2].rows) \subseteq elig
                     /\ Len(tr[2].rows) = Min(resp.limit, Cardinality(elig))
                     /\ resp.livestock.results = tr[2].rows

\* C3 witness: tier 2 answered with a row that tier 1's filters had excluded, while
\* another unsold row was not eligible.
C3_Witness ==
    /\ LivestockSearched
    /\ Len(resp.livestock.trace) = 2
    /\ resp.livestock.trace[2].tier = 2
    /\ resp.livestock.results # <<>>
    /\ \E i \in Range(resp.livestock.results) :
           ~tier1_filter(_extract_search_terms(resp.query), LivestockTable[i])
    /\ \E i \in Unsold(livestock) : ~C3_Eligible(resp.query, LivestockTable[i])

\* An egg matches one of the query's search words, no narrowing filter applied.
C4_BroadMatch(query, e) == egg_text_q(egg_search_words(query), e)

\* C4 as stated: egg search has a broad tier 2; when the strict tier is empty, the
\* query is non-empty and some available egg matches a query word, the result is
\* made of such eggs.
C4_EggBroadTier ==
    EggsSearched =>
        LET tr == resp.eggs.trace
            elig == {i \in Available(eggs) : C4_BroadMatch(resp.query, EggTable[i])}
        IN  (tr[1].rows = <<>> /\ resp.query # <<>> /\ elig # {}) =>
                Range(resp.eggs.results) \subseteq elig

\* C4 amended: egg search has two tiers.  A non-empty strict tier (narrowing filters
\* AND the word match) is the result; an empty one is followed at once by the
\* featured-then-recent rows of all available eggs, whatever the query words match.
C4_EggTwoTiers ==
    EggsSearched =>
        LET tr == resp.eggs.trace
            res == resp.eggs.results
        IN  /\ tr[1].tier = 1
            /\ \A k \in 1..Len(tr) : tr[k].tier # 2
            /\ tr[1].rows # <<>> =>
                   /\ Len(tr) = 1
                   /\ res = tr[1].rows
                   /\ \A i \in Range(res) :
                          egg_filter(_extract_egg_search_terms(resp.query),
                                     egg_search_words(resp.query), EggTable[i], today)
            /\ tr[1].rows = <<>> =>
                   /\ Len(tr) = 2 /\ tr[2].tier = 3 /\ res = tr[2].rows
                   /\ Range(res) \subseteq Available(eggs)
                   /\ Len(res) = Min(resp.limit, Cardinality(Available(eggs)))
                   /\ \A i \in Available(eggs) \ Range(res) : \A j \in Range(res) :
                          \/ EggTable[j].is_featured /\ ~EggTable[i].is_featured
                          \/ /\ EggTable[j].is_featured = EggTable[i].is_featured
                             /\ EggTable[j].created_at > EggTable[i].created_at
                   /\ \A a, b \in 1..Len(res) :
                          (a < b /\ EggTable[res[b]].is_featured) => EggTable[res[a]].is_featured

\* C4 witness: the strict tier was empty for a non-empty query although an
\* available egg matches a query word; the fallback returned an egg that matches
\* no query word.
C4_Witness ==
    /\ EggsSearched
    /\ resp.eggs.trace[1].rows = <<>>
    /\ resp.query # <<>>
    /\ \E i \in Available(eggs) : C4_BroadMatch(resp.query, EggTable[i])
    /\ \E i \in Range(resp.eggs.results) : ~C4_BroadMatch(resp.query, EggTable[i])

\* C5 as stated: a search returns an empty sequence only when the catalog is empty.
C5_NonEmptyUnlessCatalogEmpty ==
    /\ LivestockSearched => (resp.livestock.results = <<>> <=> livestock = {})
    /\ EggsSearched => (resp.eggs.results = <<>> <=> eggs = {})

\* C5 amended: a search returns at least one item whenever the catalog holds an
\* available item (unsold livestock / available egg), and an empty sequence
\* exactly when it holds none.
C5_NonEmptyIffAvailable ==
    /\ LivestockSearched => (resp.livestock.results = <<>> <=> Unsold(livestock) = {})
    /\ EggsSearched => (resp.eggs.results = <<>> <=> Available(eggs) = {})

\* C5 witness: nothing matched the query in tiers 1 and 2, and the fallback tier
\* gave a non-empty answer, while the catalog also holds a sold row.
C5_Witness ==
    /\ LivestockSearched
    /\ Len(resp.livestock.trace) = 3
    /\ resp.livestock.trace[2].rows = <<>>
    /\ resp.livestock.results # <<>>
    /\ \E r \in livestock : r.is_sold

\* C6: intent classification is total and never answers {livestock: false,
\* eggs: false}: for every query, the empty one included, at least one flag is true.
C6_IntentNeverNone ==
    /\ resp.op = "query" => ENABLED DetectQueryIntent
    /\ resp.op = "_detect_query_intent" =>
           /\ resp.intent \in [livestock : BOOLEAN, eggs : BOOLEAN]
           /\ resp.intent.livestock \/ resp.intent.eggs

\* C6 witness: the empty query was classified.
C6_Witness ==
    /\ resp.op = "_detect_query_intent"
    /\ resp.query = <<>>
    /\ resp.intent.livestock /\ resp.intent.eggs

\* C7: the decision table is evaluated in order, first match wins: an egg keyword
\* gives {false, true} whatever else is present; else a livestock-only keyword gives
\* {true, false} whatever poultry keyword is present; else {true, true}.
C7_DecisionTable ==
    resp.op = "_detect_query_intent" =>
        LET q == lower(resp.query)
            egg == \E kw \in Range(egg_keywords) : In(kw, q)
            liv == \E kw \in Range(livestock_only_keywords) : In(kw, q)
        IN  /\ egg => resp.intent = [livestock |-> FALSE, eggs |-> TRUE]
            /\ (~egg /\ liv) => resp.intent = [livestock |-> TRUE, eggs |-> FALSE]
            /\ (~egg /\ ~liv) => resp.intent = [livestock |-> TRUE, eggs |-> TRUE]

\* C7 witness: a query with an egg keyword, a livestock-only keyword and a poultry
\* keyword was classified as eggs only.
C7_Witness ==
    /\ resp.op = "_detect_query_intent"
    /\ \E kw \in Range(egg_keywords) : In(kw, lower(resp.query))
    /\ \E kw \in Range(livestock_only_keywords) : In(kw, lower(resp.query))
    /\ \E kw \in Range(poultry_keywords) : In(kw, lower(resp.query))
    /\ resp.intent = [livestock |-> FALSE, eggs |-> TRUE]

(***************************************************************************)
(* The chat operations (SpecChat)                                          *)
(***************************************************************************)

\* The query of a response that went through a search, for the operations that
\* choose catalogs from the user's text.
RoutedQuery ==
    IF resp.op = "smart_search" THEN resp.query ELSE resp.data.message

Routed ==
    \/ resp.op = "smart_search"
    \/ /\ resp.op \in {"chat_send", "chat_stream"}
       /\ resp.status = 200

\* C8: for smart_search and for the chat endpoints, the livestock engine is invoked
\* iff the classifier's intent.livestock is true and the egg engine iff intent.eggs
\* is true, and the candidates of a catalog that was not selected are empty.
C8_IntentDecidesCatalogs ==
    Routed =>
        LET intent == _detect_query_intent(RoutedQuery)
        IN  /\ resp.livestock.trace # <<>> <=> intent.livestock
            /\ resp.eggs.trace # <<>> <=> intent.eggs
            /\ ~intent.livestock => resp.livestock.results = <<>>
            /\ ~intent.eggs => resp.eggs.results = <<>>

\* C9: for a history of n turns, the one request that generate_chat_response and
\* generate_chat_response_stream make to the provider carries one system message,
\* then the last min(n, 20) turns of the history in their order, repeated turns
\* included, then one user message with the new message: min(n, 20) + 2 messages.
C9_HistoryTruncation ==
    resp.op \in {"generate_chat_response", "generate_chat_response_stream"} =>
        LET n == Len(resp.history)
            k == Min(n, 20)
        IN  /\ ~resp.raised
            /\ Len(resp.calls) = 1
            /\ LET messages == resp.calls[1].messages
               IN  /\ Len(messages) = k + 2
                   /\ messages[1].role = "system"
                   /\ \A i \in 1..k : messages[1 + i] = resp.history[n - k + i]
                   /\ messages[k + 2] = [role |-> "user", content |-> resp.message]
                   /\ \A i \in 2..(k + 2) : messages[i].role # "system"

\* A streamed call with more than 20 turns, whose kept window repeats a turn.
C9_Witness ==
    /\ resp.op = "generate_chat_response_stream"
    /\ Len(resp.history) > 20
    /\ Len(resp.calls) = 1
    /\ Len(resp.calls[1].messages) = 22
    /\ \E i, j \in 2..21 : i # j /\ resp.calls[1].messages[i] = resp.calls[1].messages[j]

\* C10: chat/send and chat/stream called with message m and a well-formed history h
\* call the provider once with [system] + the last 20 turns of h + [user m], and
\* answer: 200 with the response text, or a stream that ends with `done`.
C10_HistoryReachesProvider ==
    /\ resp.op \in {"chat_send", "chat_stream"}
    /\ "message" \in DOMAIN resp.data
    /\ resp.data.message # <<>>
    /\ "history" \in DOMAIN resp.data
    => LET h == resp.data.history
           k == Min(Len(h), 20)
       IN  /\ resp.status = 200
           /\ Len(resp.calls) = 1
           /\ LET messages == resp.calls[1].messages
              IN  /\ Len(messages) = k + 2
                  /\ messages[1].role = "system"
                  /\ \A i \in 1..k : messages[1 + i] = h[Len(h) - k + i]
                  /\ messages[k + 2] = [role |-> "user", content |-> resp.data.message]
           /\ resp.op = "chat_stream" => resp.events[Len(resp.events)].type = "done"

\* C11: every call of generate_chat_response makes exactly one request to the
\* provider; when that request fails the call returns the fixed apology, makes no
\* second request and raises nothing; when it succeeds it returns the provider's text.
C11_SingleAttemptFailSoft ==
    resp.op = "generate_chat_response" =>
        /\ ~resp.raised
        /\ Len(resp.calls) = 1
        /\ ~resp.calls[1].stream
        /\ resp.outcome.fails => resp.text = Apology
        /\ ~resp.outcome.fails => resp.text = resp.outcome.text

\* A call whose provider request failed, after a history longer than the window.
C11_Witness ==
    /\ resp.op = "generate_chat_response"
    /\ resp.outcome.fails
    /\ resp.text = Apology
    /\ Len(resp.calls) = 1
    /\ Len(resp.history) > 20

\* C13: for the same message, candidates and history and a provider that succeeds,
\* the concatenation of the chunks yielded by generate_chat_response_stream equals
\* the text returned by generate_chat_response, and both send the same messages.
C13_StreamEquivalence ==
    /\ (resp.op = "generate_chat_response_stream" /\ ~resp.outcome.fails) =>
           LET other == generate_chat_response(resp.message, resp.context_livestock,
                                               resp.context_eggs, resp.history, resp.outcome)
           IN  /\ Concat(resp.chunks) = other.text
               /\ resp.calls[1].messages = other.calls[1].messages
    /\ (resp.op = "generate_chat_response" /\ ~resp.outcome.fails) =>
           LET other == generate_chat_response_stream(resp.message, resp.context_livestock,
                                                      resp.context_eggs, resp.history,
                                                      resp.outcome)
           IN  /\ resp.text = Concat(other.chunks)
               /\ resp.calls[1].messages = other.calls[1].messages

\* A streamed answer of several chunks, the provider having sent an empty one too.
C13_Witness ==
    /\ resp.op = "generate_chat_response_stream"
    /\ ~resp.outcome.fails
    /\ Len(resp.chunks) = 2
    /\ Len(resp.outcome.chunks) = 3
    /\ Concat(resp.chunks) # <<>>

\* C15: every chat/stream response to a non-empty message is a sequence of events
\* whose chunk events carry the generator's chunks in order and whose last event is
\* `done`, whatever the message and the history.
C15_StreamEndsWithDone ==
    (resp.op = "chat_stream" /\ resp.status = 200) =>
        LET chunk_events == SelectSeq(resp.events, LAMBDA e : e.type = "chunk")
            yielded == generate_chat_response_stream(resp.data.message,
                           resp.livestock.results, <<>>, history_of(resp.data),
                           resp.outcome).chunks
        IN  /\ resp.events[Len(resp.events)].type = "done"
            /\ [k \in 1..Len(chunk_events) |-> chunk_events[k].content] = yielded

\* C16: when the provider request of chat/send fails, the endpoint answers 200 with
\* the apology and the number of livestock matched for the message.
C16_SendSurvivesProviderFailure ==
    (resp.op = "chat_send" /\ Len(resp.calls) = 1 /\ resp.outcome.fails) =>
        /\ resp.status = 200
        /\ resp.body.response = Apology
        /\ resp.body.context_count = Len(resp.livestock.results)

\* The provider failed and the message had matched livestock.
C16_Witness ==
    /\ resp.op = "chat_send"
    /\ Len(resp.calls) = 1
    /\ resp.outcome.fails
    /\ resp.status = 200
    /\ resp.body.response = Apology
    /\ resp.body.context_count = 2

\* C20: chat/send and chat/stream answer a request without a message (missing or
\* empty) with a validation error, before any term extraction, catalog query or
\* provider request.
C20_MessageRequired ==
    /\ resp.op \in {"chat_send", "chat_stream"}
    /\ ("message" \notin DOMAIN resp.data \/ resp.data.message = <<>>)
    => /\ resp.status = 400
       /\ resp.livestock = NotCalled
       /\ resp.calls = <<>>

(***************************************************************************)
(* The generator iterated step by step (SpecStream, SpecStreamFair)        *)
(***************************************************************************)

\* The chunks with content among the first n chunks of the provider.
ContentOf(chunks, n) == SelectSeq(SubSeq(chunks, 1, n), LAMBDA c : c # <<>>)

C12_Yielded ==
    stream.pc # "none" =>
        LET chunks == stream.outcome.chunks
        IN  /\ ~stream.raised
            /\ Len(stream.calls) <= 1
            /\ stream.requested <= Len(chunks)
            /\ stream.yielded = ContentOf(chunks, stream.requested)
                                    \o (IF stream.apologized THEN <<Apology>> ELSE <<>>)
            /\ stream.apologized =>
                   /\ stream.outcome.fails
                   /\ stream.requested = Len(chunks)
                   /\ stream.upstream # "open"
            /\ stream.pc = "finished" =>
                   /\ stream.requested = Len(chunks)
                   /\ stream.apologized <=> stream.outcome.fails
                   /\ stream.yielded =
                          generate_chat_response_stream(stream.message,
                              stream.context_livestock, stream.context_eggs,
                              stream.history, stream.outcome).chunks

\* C12: the generator yields the provider's fragments with content in the order of
\* generation; when the provider fails before or between chunks it yields the
\* apology once, as its last element, and ends at the next step without raising; no
\* chunk follows the apology; every generator that is iterated ends.
C12_StreamFailSoft ==
    /\ []C12_Yielded
    /\ [][(stream.pc = "suspended" /\ stream.apologized) =>
              stream'.pc \in {"finished", "closed"} /\ stream'.yielded = stream.yielded]_vars
    /\ (stream.pc = "created") ~> (stream.pc \in {"finished", "closed"})

\* The provider failed between chunks: a chunk, then the apology, then the end.
C12_Witness ==
    /\ stream.pc = "finished"
    /\ stream.apologized
    /\ Len(stream.yielded) = 2
    /\ stream.yielded[2] = Apology
    /\ stream.yielded[1] # Apology

\* C14: when the consumer stops after a chunk, the generator asks for no further
\* chunk and the provider's response is closed at that point: no response remains
\* open after an early exit.
C14_CloseReleasesUpstream ==
    stream.pc = "closed" => stream.upstream # "open"

(***************************************************************************)
(* Freshness (SpecFresh)                                                   *)
(***************************************************************************)

\* C17: the freshness status depends on daysUntilExpiry = expiry date - today only:
\* unknown without an expiry date, expired below 0, expiring_soon from 0 to 3,
\* use_soon from 4 to 7, fresh from 8 on.
C17_FreshnessStatus ==
    resp.op = "freshness_status" =>
        IF resp.expiry_date = <<>> THEN resp.value = "unknown"
        ELSE LET daysUntilExpiry == resp.expiry_date[1] - today
             IN  /\ daysUntilExpiry < 0 => resp.value = "expired"
                 /\ daysUntilExpiry \in 0..3 => resp.value = "expiring_soon"
                 /\ daysUntilExpiry \in 4..7 => resp.value = "use_soon"
                 /\ daysUntilExpiry >= 8 => resp.value = "fresh"
                 /\ resp.value \in {"expired", "expiring_soon", "use_soon", "fresh"}

\* An egg three days from its expiry date.
C17_Witness ==
    /\ resp.op = "freshness_status"
    /\ resp.expiry_date # <<>>
    /\ resp.expiry_date[1] - today = 3
    /\ resp.value = "expiring_soon"

\* C18: for a shelf life s > 0 the freshness percentage is 100 * max(0, days left)
\* / s rounded to the nearest integer (a tie either way) and clamped to 0..100; it
\* is undefined when the shelf life is undefined or not positive.
C18_PercentageRounded ==
    resp.op = "freshness_percentage" =>
        LET shelf == shelf_life_days(resp.production_date, resp.expiry_date)
        IN  IF shelf = <<>> \/ shelf[1] <= 0 THEN resp.value = <<>>
            ELSE LET left == resp.expiry_date[1] - today
                     r == IF left > 0 THEN left ELSE 0
                     s == shelf[1]
                 IN  /\ resp.value # <<>>
                     /\ resp.value[1] \in 0..100
                     /\ 200 * r >= 199 * s => resp.value[1] = 100
                     /\ 200 * r < 199 * s =>
                            /\ 2 * (100 * r - resp.value[1] * s) <= s
                            /\ 2 * (resp.value[1] * s - 100 * r) <= s

(***************************************************************************)
(* The term extractor (SpecTerms)                                          *)
(***************************************************************************)

\* The amount of '<number>[k]' read from position j: the digits, commas stripped,
\* times 1000 when a k follows.
C19_Amount(s, j) ==
    LET stop == CHOOSE e \in j..(Len(s) + 1) :
                    /\ \A i \in j..(e - 1) : s[i] \in Digits \cup {","}
                    /\ e <= Len(s) => s[e] \notin Digits \cup {","}
        digits == SelectSeq(SubSeq(s, j, stop - 1), LAMBDA c : c \in Digits)
    IN  IF stop <= Len(s) /\ s[stop] = "k" THEN 1000 * int(digits) ELSE int(digits)

\* The amounts of the occurrences of  kw <number>[k]  in s.
C19_Amounts(kw, s) ==
    {C19_Amount(s, PriceGroupAt(kw, s, i)) : i \in {h \in 1..Len(s) : PriceGroupAt(kw, s, h) # 0}}

\* C19: a query with 'under <number>[k]' or 'below <number>[k]' and no 'above'
\* pattern yields the bound (max, amount); one with 'above <number>[k]' yields
\* (min, amount); the amount is the number, commas stripped, times 1000 with a k
\* suffix.  'goats under 50k in Lagos' yields (max, 50000), ['lagos'], ['goats'].
C19_PriceBound ==
    resp.op = "_extract_search_terms" =>
        LET q == lower(resp.query)
            above == C19_Amounts(<<"a", "b", "o", "v", "e">>, q)
            under == C19_Amounts(<<"u", "n", "d", "e", "r">>, q)
            below == C19_Amounts(<<"b", "e", "l", "o", "w">>, q)
            bound == resp.terms.price_range
        IN  /\ above # {} => bound.kind = "min" /\ bound.amount \in above
            /\ (above = {} /\ under \cup below # {}) =>
                   bound.kind = "max" /\ bound.amount \in under \cup below
            /\ resp.query = <<"g", "o", "a", "t", "s", " ", "u", "n", "d", "e", "r", " ",
                              "5", "0", "k", " ", "i", "n", " ", "L", "a", "g", "o", "s">> =>
                   /\ bound = [kind |-> "max", amount |-> 50000]
                   /\ resp.terms.location_terms = <<<<"l", "a", "g", "o", "s">>>>
                   /\ resp.terms.categories = <<<<"g", "o", "a", "t", "s">>>>

C22_EmptyCriteria ==
    /\ resp.op = "semantic_search"
    /\ LET criteria == _extract_search_terms(resp.query)
       IN  /\ criteria.categories = <<>>
           /\ criteria.breeds = <<>>
           /\ criteria.gender = "None"
           /\ criteria.quality_terms = <<>>
           /\ criteria.price_range.kind = "none"
           /\ criteria.location_terms = <<>>
           /\ criteria.general_terms = <<>>

\* C22 (as stated): with entirely empty criteria tier 1 is skipped, so the result is
\* never the product of a tier-1 query; for a non-blank query the items are those of
\* tier 2 if an unsold item matches one of the first five words of length >= 3, and
\* those of tier 3 otherwise.
C22_EmptyCriteriaSkipTier1 ==
    C22_EmptyCriteria =>
        LET tr == resp.livestock.trace
            matching == {i \in Unsold(livestock) : C3_Eligible(resp.query, LivestockTable[i])}
        IN  /\ tr[Len(tr)].tier # 1
            /\ strip(resp.query) # <<>> =>
                   resp.livestock.results =
                       IF matching # {} THEN livestock_list(matching, resp.limit)
                       ELSE livestock_list(Unsold(livestock), resp.limit)

\* C22 (amended): with entirely empty criteria tier 1 runs with no predicate and
\* selects the most recent unsold items up to the limit; they are the result, and
\* when an unsold item exists no other tier runs, also for a non-blank query with a
\* word that a tier-2 query would match.
C22_EmptyCriteriaUnfilteredTier1 ==
    C22_EmptyCriteria =>
        LET tr == resp.livestock.trace
        IN  /\ tr[1].tier = 1
            /\ tr[1].rows = livestock_list(Unsold(livestock), resp.limit)
            /\ resp.livestock.results = livestock_list(Unsold(livestock), resp.limit)
            /\ Unsold(livestock) # {} => Len(tr) = 1

\* C22 witness: 'any and all' has empty criteria, an unsold item matches its word
\* 'and', and the result is the most recent unsold item, which does not match.
C22_Witness ==
    /\ C22_EmptyCriteria
    /\ strip(resp.query) # <<>>
    /\ \E i \in Unsold(livestock) : C3_Eligible(resp.query, LivestockTable[i])
    /\ resp.livestock.results # <<>>
    /\ \A k \in 1..Len(resp.livestock.results) :
           ~C3_Eligible(resp.query, LivestockTable[resp.livestock.results[k]])

\* C23: the extractor yields at most one price bound; when the query holds both an
\* 'under <n>' and an 'above <n>' pattern the bound is (min, amount of the 'above'
\* pattern), whichever of the two comes first in the query.
C23_AboveOverridesUnder ==
    resp.op = "_extract_search_terms" =>
        LET q == lower(resp.query)
            under == price_search(<<"u", "n", "d", "e", "r">>, q)
            above == price_search(<<"a", "b", "o", "v", "e">>, q)
            bound == resp.terms.price_range
        IN  /\ bound.kind \in {"none", "min", "max"}
            /\ bound.kind = "none" <=> ~under.found /\ ~above.found
            /\ (under.found /\ above.found) =>
                   bound = [kind |-> "min", amount |-> int(replace_k_comma(above.group))]

\* C23 witness: 'above 50k or under 7,000', the 'above' pattern first in the text,
\* yields (min, 50000); the other order occurs as well ('under 50k above 20k').
C23_Witness ==
    /\ resp.op = "_extract_search_terms"
    /\ resp.query = <<"a","b","o","v","e"," ","5","0","k"," ","o","r"," ",
                      "u","n","d","e","r"," ","7",",","0","0","0">>
    /\ resp.terms.price_range = [kind |-> "min", amount |-> 50000]

\* C24: the gender is M whenever a male keyword occurs in the lower-cased query, F
\* exactly when a female keyword occurs and no male keyword does, and absent when
\* neither occurs.
C24_GenderPrecedence ==
    resp.op = "_extract_search_terms" =>
        LET q == lower(resp.query)
            male == \E k \in 1..Len(gender_map[1].keywords) : In(gender_map[1].keywords[k], q)
            female == \E k \in 1..Len(gender_map[2].keywords) : In(gender_map[2].keywords[k], q)
        IN  /\ gender_map[1].gender = "male" /\ gender_map[2].gender = "female"
            /\ male => resp.terms.gender = "M"
            /\ resp.terms.gender = "F" <=> female /\ ~male
            /\ resp.terms.gender = "None" <=> ~female /\ ~male

\* C24 witness: a query with the female keyword 'female', which holds the male
\* keyword 'male', has the gender M.
C24_Witness ==
    /\ resp.op = "_extract_search_terms"
    /\ In(<<"f","e","m","a","l","e">>, lower(resp.query))
    /\ resp.terms.gender = "M"

\* C25: the criteria buckets are mutually exclusive: general_terms holds no term that
\* is in breeds, quality_terms or location_terms or that is a keyword of a category;
\* it holds the other words of the lower-cased query that are longer than 2 and are
\* no stop words, in the order of the query, repeated as often as they occur.
C25_BucketsExclusive ==
    resp.op = "_extract_search_terms" =>
        LET t == resp.terms
            captured(w) ==
                \/ w \in Range(t.breeds) \cup Range(t.quality_terms) \cup Range(t.location_terms)
                \/ InCategoryKeywords(w)
            kept(w) == Len(w) > 2 /\ w \notin stopwords /\ ~captured(w)
        IN  /\ \A k \in 1..Len(t.general_terms) : ~captured(t.general_terms[k])
            /\ t.general_terms = SelectSeq(findall_words(lower(resp.query)), kept)

\* C30: keywords are matched as substrings of the lower-cased query, so a query that
\* contains 'female', 'she' or 'sheep' contains the male keyword 'male' or 'he', is
\* given the gender M, and the tier-1 filter it runs is gender = M.
C30_FemaleWordsYieldMale ==
    LivestockSearched =>
        LET q == lower(resp.query)
            criteria == _extract_search_terms(resp.query)
            others == [criteria EXCEPT !.gender = "None"]
        IN  (\/ In(<<"f","e","m","a","l","e">>, q)
             \/ In(<<"s","h","e">>, q)
             \/ In(<<"s","h","e","e","p">>, q)) =>
                /\ \E kw \in {<<"m","a","l","e">>, <<"h","e">>} :
                       kw \in Range(gender_map[1].keywords) /\ In(kw, q)
                /\ criteria.gender = "M"
                /\ resp.livestock.trace[1].rows =
                       livestock_list({i \in Unsold(livestock) :
                                          /\ LivestockTable[i].gender = "M"
                                          /\ tier1_filter(others, LivestockTable[i])},
                                      resp.limit)

\* C30 witness: 'sheep' selects the male sheep in tier 1.
C30_Witness ==
    /\ resp.op = "semantic_search"
    /\ In(<<"s","h","e","e","p">>, lower(resp.query))
    /\ resp.livestock.trace[1].rows # <<>>
    /\ \A k \in 1..Len(resp.livestock.trace[1].rows) :
           LivestockTable[resp.livestock.trace[1].rows[k]].gender = "M"

\* C26: every egg query that contains 'extra large' or 'extra-large' yields the size
\* extra_large; the size is large only when 'large' or 'big' occurs without the
\* extra-large phrase.
C26_ExtraLargeNotShadowed ==
    resp.op = "_extract_egg_search_terms" =>
        LET q == lower(resp.query)
            phrase == \/ In(<<"e","x","t","r","a"," ","l","a","r","g","e">>, q)
                      \/ In(<<"e","x","t","r","a","-","l","a","r","g","e">>, q)
        IN  /\ phrase => resp.terms.size = "extra_large"
            /\ resp.terms.size = "large" =>
                   /\ In(<<"l","a","r","g","e">>, q) \/ In(<<"b","i","g">>, q)
                   /\ ~phrase

\* C27: freshness filtering agrees with the freshness status.  The 'fresh' filter of
\* the egg search selects an egg exactly when its status is fresh; the
\* freshness-filter endpoint, for a status S among fresh, use_soon, expiring_soon
\* and expired, selects an egg exactly when its status is S, so that an egg with an
\* expiry date is selected for exactly one of the four.
C27_FilterAgreesWithStatus ==
    LET status_of(i) == freshness_status(EggTable[i].expiry_date, today)
        statuses == {"fresh", "use_soon", "expiring_soon", "expired"}
    IN  /\ (resp.op = "semantic_search_eggs"
              /\ _extract_egg_search_terms(resp.query).freshness = "fresh") =>
               LET criteria == [_extract_egg_search_terms(resp.query) EXCEPT !.freshness = "None"]
                   others == {i \in Available(eggs) :
                                 egg_filter(criteria, egg_search_words(resp.query), EggTable[i], today)}
                   found == resp.eggs.trace[1].rows
               IN  /\ \A i \in Range(found) : i \in others /\ status_of(i) = "fresh"
                   /\ \A i \in others :
                          status_of(i) = "fresh" => i \in Range(found) \/ Len(found) = resp.limit
        /\ (resp.op = "freshness_filter" /\ resp.status \in statuses) =>
               /\ \A i \in Available(eggs) : i \in Range(resp.results) <=> status_of(i) = resp.status
               /\ \A i \in Available(eggs) :
                      EggTable[i].expiry_date # <<>> =>
                          Cardinality({S \in statuses :
                                          i \in Range(freshness_filter(S, eggs, today))}) = 1

(***************************************************************************)
(* The prompt builder (SpecPrompt)                                         *)
(***************************************************************************)

\* The entries are those of the first five candidates, in order, each with at most
\* three of the candidate's tags and its description cut to 150 characters, three
\* dots added exactly when it is longer.
C28_Shown(candidates, entries) ==
    /\ Len(entries) = Min(Len(candidates), 5)
    /\ \A k \in 1..Len(entries) :
           /\ entries[k].name = candidates[k].name
           /\ Len(entries[k].tags) <= 3
           /\ Range(entries[k].tags) \subseteq Range(candidates[k].tags)
           /\ LET description == candidates[k].description
              IN  entries[k].description =
                      IF Len(description) > 150
                      THEN SubSeq(description, 1, 150) \o <<".", ".", ".">>
                      ELSE description

\* C28: the system prompt is bounded: it holds at most 5 candidates per catalog, the
\* first 5 of each list in order, each with at most 3 tags and with its description
\* cut to the first 150 characters, an ellipsis following exactly when the
\* description is longer than 150 characters.
C28_PromptBounded ==
    resp.op = "_build_system_prompt" =>
        /\ ~resp.built.raised
        /\ C28_Shown(resp.livestock_list, resp.built.prompt.livestock)
        /\ C28_Shown(resp.eggs_list, resp.built.prompt.eggs)

\* C28 witness: six candidates of each catalog are given and five of each are
\* shown; one shown item has four tags, one a description of 150 characters and one
\* a description of 151.
C28_Witness ==
    /\ resp.op = "_build_system_prompt"
    /\ Len(resp.livestock_list) = 6 /\ Len(resp.built.prompt.livestock) = 5
    /\ Len(resp.eggs_list) = 6 /\ Len(resp.built.prompt.eggs) = 5
    /\ \E k \in 1..5 : Len(resp.livestock_list[k].tags) = 4
    /\ \E k \in 1..5 : Len(resp.livestock_list[k].description) = 150
    /\ \E k \in 1..5 :
           /\ Len(resp.livestock_list[k].description) = 151
           /\ Len(resp.built.prompt.livestock[k].description) = 153

(***************************************************************************)
(* Concurrent calls (SpecConcurrent)                                       *)
(***************************************************************************)

\* C29: a call keeps no state between calls and writes neither to the catalog nor to
\* the caller's history: however the steps of concurrent search and generate calls
\* interleave over an unchanged catalog, each call returns what it returns when run
\* alone, and the catalog and the history lists are as they were.
C29_CallsIndependent ==
    resp.op = "concurrent" =>
        /\ livestock = resp.before.livestock
        /\ eggs = resp.before.eggs
        /\ \A i \in {1, 2} :
               LET c == resp.calls[i]
               IN  IF c.kind = "semantic_search"
                   THEN c.pc = "done" =>
                            c.results = semantic_search(c.query, c.limit, resp.before.livestock).results
                   ELSE /\ c.conversation_history = c.given
                        /\ c.pc = "done" =>
                               LET alone == generate_chat_response(
                                                c.message, c.context_livestock, c.context_eggs,
                                                c.given, c.outcome)
                               IN  /\ c.raised = alone.raised
                                   /\ c.calls = alone.calls
                                   /\ c.text = alone.text

\* C29 witness: a search that went through the three tiers and a generate call with
\* a history of more than 20 turns have both returned, their steps interleaved.
C29_Witness ==
    /\ resp.op = "concurrent"
    /\ resp.calls[1].kind = "semantic_search" /\ resp.calls[1].pc = "done"
    /\ resp.calls[2].kind = "generate_chat_response" /\ resp.calls[2].pc = "done"
    /\ Len(resp.calls[2].given) > HistoryWindow
    /\ resp.schedule = <<1, 2, 1, 2, 1>>

====
